---- MODULE Spec2Model ----
(***************************************************************************)
(* be-schema: a positional schema codec.  Records (Go structs) are turned   *)
(* into arrays ordered by their `beschema` tags, the arrays are rendered as *)
(* JSON and framed as  <size> CRLF <json> CRLF.                             *)
(*                                                                          *)
(* Byte strings are sequences of one-character strings.  A Go value is a    *)
(* record tagged by its kind in field k:                                    *)
(*   [k |-> "null"]                 nil                                     *)
(*   [k |-> "string", s |-> bytes]  a Go string field value                 *)
(*   [k |-> "int",    n |-> i]      a Go int field value                    *)
(*   [k |-> "uint",   n |-> i]      a Go uint field value                   *)
(*   [k |-> "float",  n |-> t]      a float64, t counts tenths (15 = 1.5)   *)
(*   [k |-> "bool",   b |-> b]      a Go bool                               *)
(*   [k |-> "arr",    a |-> seq]    a []interface{}                         *)
(*   [k |-> "struct", fs |-> seq]   a struct value, one entry per field     *)
(* encoding/json decodes into interface{}: nil, bool, float64, string and   *)
(* []interface{}, which are the kinds null, bool, float, string and arr.    *)
(***************************************************************************)
EXTENDS Integers, Sequences, FiniteSets, TLC

VARIABLES
    pc,     \* the call made last, "start" before the first
    T,      \* the record type the calls are made at (the type parameter T)
    v,      \* the value handed to the encoder; for bytes written by hand, their parts
    arr,    \* structToArray's result, or arrayToStruct's argument
    data,   \* the bytes an encoder returned
    wire,   \* the bytes handed to a decoder
    res,    \* the decoder's result: [err |-> error, val |-> record, schema or stream]
    loop    \* the locals of a call of UnmarshalImplicitStream that is followed
            \* statement by statement: [lines, lineEnding, i, schemas]

vars == <<pc, T, v, arr, data, wire, res, loop>>

(***************************************************************************)
(* Bytes                                                                   *)
(***************************************************************************)
CR == "\r"
LF == "\n"
CRLF == <<CR, LF>>
Quote == "\""
Backslash == "\\"

Digits == <<"0", "1", "2", "3", "4", "5", "6", "7", "8", "9">>
DigitSet == {Digits[i] : i \in 1..10}
DigitVal(c) == (CHOOSE i \in 1..10 : Digits[i] = c) - 1

\* unicode.IsSpace over the bytes of the model: what strings.TrimSpace strips.
WhiteSpace == {" ", "\t", "\n", "\r", "\f"}

RECURSIVE IndexFrom(_, _, _)
\* The least i >= from at which sep occurs in s, or 0: strings.Index.
IndexFrom(s, sep, from) ==
    IF from + Len(sep) - 1 > Len(s) THEN 0
    ELSE IF SubSeq(s, from, from + Len(sep) - 1) = sep THEN from
    ELSE IndexFrom(s, sep, from + 1)

RECURSIVE Split(_, _)
\* strings.Split(s, sep) for a non-empty sep: every segment, the empty ones too.
Split(s, sep) ==
    LET i == IndexFrom(s, sep, 1) IN
    IF i = 0 THEN <<s>>
    ELSE <<SubSeq(s, 1, i - 1)>> \o Split(SubSeq(s, i + Len(sep), Len(s)), sep)

RECURSIVE TrimLeft(_)
TrimLeft(s) ==
    IF s # <<>> /\ Head(s) \in WhiteSpace THEN TrimLeft(Tail(s)) ELSE s

RECURSIVE TrimRight(_)
TrimRight(s) ==
    IF s # <<>> /\ s[Len(s)] \in WhiteSpace THEN TrimRight(SubSeq(s, 1, Len(s) - 1)) ELSE s

\* strings.TrimSpace
TrimSpace(s) == TrimRight(TrimLeft(s))

RECURSIVE ItoaNat(_)
ItoaNat(n) ==
    IF n < 10 THEN <<Digits[n + 1]>> ELSE ItoaNat(n \div 10) \o <<Digits[(n % 10) + 1]>>

\* The %d verb of fmt.Sprintf, strconv.Itoa: the decimal rendering of n.
Itoa(n) == IF n < 0 THEN <<"-">> \o ItoaNat(-n) ELSE ItoaNat(n)

RECURSIVE DigitsValue(_)
\* The number a sequence of decimal digits writes.
DigitsValue(ds) ==
    IF ds = <<>> THEN 0 ELSE 10 * DigitsValue(SubSeq(ds, 1, Len(ds) - 1)) + DigitVal(ds[Len(ds)])

RECURSIVE StripZeros(_)
StripZeros(ds) == IF Len(ds) > 1 /\ Head(ds) = "0" THEN StripZeros(Tail(ds)) ELSE ds

RECURSIVE DigitsGreater(_, _)
\* For digit sequences of one length: a writes a greater number than b.
DigitsGreater(a, b) ==
    IF a = <<>> THEN FALSE
    ELSE IF Head(a) # Head(b) THEN DigitVal(Head(a)) > DigitVal(Head(b))
    ELSE DigitsGreater(Tail(a), Tail(b))

\* The digits of 1<<63 - 1, the largest int (int is 64 bits wide on the
\* platforms Go 1.24 builds this module for); its negative bound ends in 8.
MaxInt64Digits ==
    <<"9","2","2","3","3","7","2","0","3","6","8","5","4","7","7","5","8","0","7">>
MinInt64Digits ==
    <<"9","2","2","3","3","7","2","0","3","6","8","5","4","7","7","5","8","0","8">>

\* The model's integers are 32 bits wide: a value of ten digits or more that
\* an int64 holds is kept as this number, which exceeds every length and
\* position of the model and so compares with them as the value itself does.
Beyond == 1000000000

\* strconv.Atoi, and strconv.ParseInt(s, 10, 64): an optional sign, then
\* decimal digits only; err is "syntax" or "range" as in *strconv.NumError.
Atoi(s) ==
    LET signed == s # <<>> /\ Head(s) \in {"+", "-"}
        neg    == s # <<>> /\ Head(s) = "-"
        ds     == IF signed THEN Tail(s) ELSE s
        sig    == StripZeros(ds)
        limit  == IF neg THEN MinInt64Digits ELSE MaxInt64Digits
        mag    == IF Len(sig) > 9 THEN Beyond ELSE DigitsValue(sig)
    IN  IF ds = <<>> \/ \E i \in 1..Len(ds) : ds[i] \notin DigitSet
        THEN [err |-> "syntax", n |-> 0]
        ELSE IF Len(sig) > Len(limit) \/ (Len(sig) = Len(limit) /\ DigitsGreater(sig, limit))
        THEN [err |-> "range", n |-> 0]
        ELSE [err |-> "", n |-> IF neg THEN -mag ELSE mag]

(***************************************************************************)
(* Values                                                                  *)
(***************************************************************************)
Null == [k |-> "null"]
StrV(s) == [k |-> "string", s |-> s]
IntV(n) == [k |-> "int", n |-> n]
UintV(n) == [k |-> "uint", n |-> n]
FloatV(t) == [k |-> "float", n |-> t]
BoolV(b) == [k |-> "bool", b |-> b]
ArrV(a) == [k |-> "arr", a |-> a]
StructV(fs) == [k |-> "struct", fs |-> fs]

(***************************************************************************)
(* encoding/json                                                           *)
(***************************************************************************)
\* One byte of a string as the encoder writes it inside the quotes.
EscapeByte(c) ==
    CASE c = Quote -> <<Backslash, Quote>>
      [] c = Backslash -> <<Backslash, Backslash>>
      [] c = "\n" -> <<Backslash, "n">>
      [] c = "\r" -> <<Backslash, "r">>
      [] c = "\t" -> <<Backslash, "t">>
      [] OTHER -> <<c>>

RECURSIVE EscapeBytes(_)
EscapeBytes(s) == IF s = <<>> THEN <<>> ELSE EscapeByte(Head(s)) \o EscapeBytes(Tail(s))

\* A float64 of t tenths as the encoder writes it: 10 is 1, 15 is 1.5, -5 is -0.5.
FormatFloat(t) ==
    LET m == IF t < 0 THEN -t ELSE t IN
    (IF t < 0 THEN <<"-">> ELSE <<>>) \o ItoaNat(m \div 10)
        \o (IF m % 10 = 0 THEN <<>> ELSE <<".", Digits[(m % 10) + 1]>>)

RECURSIVE jsonMarshal(_)
RECURSIVE jsonMarshalElems(_)
\* json.Marshal of one value.
jsonMarshal(x) ==
    CASE x.k = "null" -> <<"n", "u", "l", "l">>
      [] x.k = "string" -> <<Quote>> \o EscapeBytes(x.s) \o <<Quote>>
      [] x.k \in {"int", "uint"} -> Itoa(x.n)
      [] x.k = "float" -> FormatFloat(x.n)
      [] x.k = "bool" -> IF x.b THEN <<"t", "r", "u", "e">> ELSE <<"f", "a", "l", "s", "e">>
      [] x.k = "arr" -> <<"[">> \o jsonMarshalElems(x.a) \o <<"]">>

jsonMarshalElems(a) ==
    IF a = <<>> THEN <<>>
    ELSE IF Len(a) = 1 THEN jsonMarshal(a[1])
    ELSE jsonMarshal(a[1]) \o <<",">> \o jsonMarshalElems(Tail(a))

\* The whitespace JSON allows between tokens.
JSONSpace == {" ", "\t", "\n", "\r"}

RECURSIVE SkipSpace(_, _)
SkipSpace(s, i) == IF i <= Len(s) /\ s[i] \in JSONSpace THEN SkipSpace(s, i + 1) ELSE i

\* A parse step's result: ok, the value read, and the index after it.
ParseFail == [ok |-> FALSE, x |-> Null, i |-> 0]
ParseOk(x, i) == [ok |-> TRUE, x |-> x, i |-> i]

HasAt(s, i, lit) == i + Len(lit) - 1 <= Len(s) /\ SubSeq(s, i, i + Len(lit) - 1) = lit

RECURSIVE ParseString(_, _, _)
\* The bytes of a string literal from index i (after its opening quote).  An
\* unescaped control byte ends the parse in error; of the escapes, the ones
\* EscapeByte writes and \/ are read, and the others (\b, \f, \u) are outside
\* the model's texts.
ParseString(s, i, acc) ==
    IF i > Len(s) THEN ParseFail
    ELSE IF s[i] = Quote THEN ParseOk(StrV(acc), i + 1)
    ELSE IF s[i] \in {"\n", "\r", "\t", "\f"} THEN ParseFail
    ELSE IF s[i] = Backslash
    THEN IF i + 1 > Len(s) THEN ParseFail
         ELSE CASE s[i + 1] = Quote -> ParseString(s, i + 2, Append(acc, Quote))
                [] s[i + 1] = Backslash -> ParseString(s, i + 2, Append(acc, Backslash))
                [] s[i + 1] = "/" -> ParseString(s, i + 2, Append(acc, "/"))
                [] s[i + 1] = "n" -> ParseString(s, i + 2, Append(acc, "\n"))
                [] s[i + 1] = "r" -> ParseString(s, i + 2, Append(acc, "\r"))
                [] s[i + 1] = "t" -> ParseString(s, i + 2, Append(acc, "\t"))
                [] OTHER -> ParseFail
    ELSE ParseString(s, i + 1, Append(acc, s[i]))

RECURSIVE DigitRun(_, _)
\* The index after the run of digits that starts at i.
DigitRun(s, i) == IF i <= Len(s) /\ s[i] \in DigitSet THEN DigitRun(s, i + 1) ELSE i

\* A number literal at index i: -? (0 | [1-9][0-9]*) (. [0-9]+)?, read as a
\* float64.  The model's texts carry at most one fraction digit and no
\* exponent, so the value is kept in tenths.
ParseNumber(s, i) ==
    LET neg  == s[i] = "-"
        i0   == IF neg THEN i + 1 ELSE i
        i1   == DigitRun(s, i0)
        int  == SubSeq(s, i0, i1 - 1)
        frac == i1 <= Len(s) /\ s[i1] = "."
        i2   == IF frac THEN DigitRun(s, i1 + 1) ELSE i1
        fd   == IF frac /\ i2 > i1 + 1 THEN DigitVal(s[i1 + 1]) ELSE 0
        mag  == 10 * DigitsValue(int) + fd
    IN  IF int = <<>> \/ (Len(int) > 1 /\ Head(int) = "0") \/ (frac /\ i2 = i1 + 1)
        THEN ParseFail
        ELSE ParseOk(FloatV(IF neg THEN -mag ELSE mag), i2)

RECURSIVE ParseValue(_, _)
RECURSIVE ParseElems(_, _, _)
\* One JSON value at index i, after any whitespace.
ParseValue(s, i) ==
    LET j == SkipSpace(s, i) IN
    IF j > Len(s) THEN ParseFail
    ELSE CASE s[j] = "[" ->
                 LET e == SkipSpace(s, j + 1) IN
                 IF e <= Len(s) /\ s[e] = "]" THEN ParseOk(ArrV(<<>>), e + 1)
                 ELSE ParseElems(s, j + 1, <<>>)
           [] s[j] = Quote -> ParseString(s, j + 1, <<>>)
           [] s[j] \in DigitSet \cup {"-"} -> ParseNumber(s, j)
           [] HasAt(s, j, <<"n", "u", "l", "l">>) -> ParseOk(Null, j + 4)
           [] HasAt(s, j, <<"t", "r", "u", "e">>) -> ParseOk(BoolV(TRUE), j + 4)
           [] HasAt(s, j, <<"f", "a", "l", "s", "e">>) -> ParseOk(BoolV(FALSE), j + 5)
           [] OTHER -> ParseFail

\* The elements of an array from index i, acc holding those read so far.
ParseElems(s, i, acc) ==
    LET r == ParseValue(s, i)
        j == SkipSpace(s, r.i)
    IN  IF ~r.ok \/ j > Len(s) THEN ParseFail
        ELSE IF s[j] = "," THEN ParseElems(s, j + 1, Append(acc, r.x))
        ELSE IF s[j] = "]" THEN ParseOk(ArrV(Append(acc, r.x)), j + 1)
        ELSE ParseFail

\* json.Unmarshal(text, &arr) for arr of type []interface{}: the text must be
\* one JSON value and nothing else; an array gives its elements, null gives
\* the nil slice, and any other value is an error.
jsonUnmarshal(text) ==
    LET r == ParseValue(text, 1) IN
    IF ~r.ok \/ SkipSpace(text, r.i) <= Len(text) THEN [ok |-> FALSE, a |-> <<>>]
    ELSE IF r.x.k = "arr" THEN [ok |-> TRUE, a |-> r.x.a]
    ELSE IF r.x.k = "null" THEN [ok |-> TRUE, a |-> <<>>]
    ELSE [ok |-> FALSE, a |-> <<>>]

(***************************************************************************)
(* Record types                                                            *)
(*                                                                         *)
(* A record type is the sequence of its fields in declaration order.  A    *)
(* field is [name, exp, tag, kind, sub]: exp says whether it is exported   *)
(* (CanInterface, CanSet), tag is the text of its beschema tag (empty when *)
(* it has none), kind is "string", "int", "float" (float64), "bool",       *)
(* "uint", "slice" ([]interface{}) or "struct", and sub is the record type *)
(* of a struct field.  A record value holds one value per field.           *)
(***************************************************************************)
Field(name, exp, tag, kind, sub) ==
    [name |-> name, exp |-> exp, tag |-> tag, kind |-> kind, sub |-> sub]

\* The zero value of a field of the given kind (a nil slice marshals as null).
RECURSIVE Zero(_)
ZeroOf(f) ==
    CASE f.kind = "string" -> StrV(<<>>)
      [] f.kind = "int" -> IntV(0)
      [] f.kind = "uint" -> UintV(0)
      [] f.kind = "float" -> FloatV(0)
      [] f.kind = "bool" -> BoolV(FALSE)
      [] f.kind = "slice" -> Null
      [] f.kind = "struct" -> StructV(Zero(f.sub))

\* `var result T`: the zero record of type t.
Zero(t) == [i \in 1..Len(t) |-> ZeroOf(t[i])]

(***************************************************************************)
(* Errors: [kind |-> ...] and what the message carries.                    *)
(***************************************************************************)
NoErr == [kind |-> "ok"]
\* "expected array for struct field %s, got %T"
ShapeErr(name) == [kind |-> "shape", fields |-> <<name>>]
\* "unsupported field type: %s"
UnsupportedErr == [kind |-> "unsupported", fields |-> <<>>]
\* "failed to set field %s: %v", "failed to populate struct field %s: %v"
WrapErr(name, e) == [e EXCEPT !.fields = <<name>> \o @]
\* "invalid data format: expected at least 2 lines"
LinesErr == [kind |-> "lines"]
\* "invalid size format: %v"
SizeFormatErr == [kind |-> "sizeformat"]
\* "data size mismatch: expected %d, got %d (JSON: %d + CRLF: 2)"
SizeMismatchErr(expected, actual) ==
    [kind |-> "size", expected |-> expected, actual |-> actual]
\* "failed to unmarshal JSON: %v"
JSONErr == [kind |-> "json"]

(***************************************************************************)
(* Position resolution                                                     *)
(***************************************************************************)
\* Faulty variant of tagValue: the tag is not read, fields keep their declaration order.
tagValueDeclared(i, tag) == i

\* The tag value of the field declared i-th (i counts from 1, where the Go
\* loop index counts from 0 and takes i + 1): the tag when strconv.Atoi
\* reads it, the declaration order otherwise.
tagValue(i, tag) ==
    IF tag # <<>> /\ Atoi(tag).err = "" THEN Atoi(tag).n ELSE i

\* fieldInfo: the field's index in the record and its tag value.
fieldInfo(i, tv) == [i |-> i, tagValue |-> tv]

RECURSIVE collectFrom(_, _)
collectFrom(t, i) ==
    IF i > Len(t) THEN <<>>
    ELSE (IF t[i].exp THEN <<fieldInfo(i, tagValue(i, t[i].tag))>> ELSE <<>>)
             \o collectFrom(t, i + 1)

\* The first loop of structToArray, arrayToStruct and populateStructFromArray:
\* the exported fields in declaration order, each with its tag value.
collectFields(t) == collectFrom(t, 1)

RECURSIVE insertFieldBeforeEqual(_, _)
\* Faulty variant of insertField: x also moves left past the fields of its own tag value.
insertFieldBeforeEqual(sorted, x) ==
    IF sorted # <<>> /\ x.tagValue <= sorted[Len(sorted)].tagValue
    THEN Append(insertFieldBeforeEqual(SubSeq(sorted, 1, Len(sorted) - 1), x), sorted[Len(sorted)])
    ELSE Append(sorted, x)

RECURSIVE insertField(_, _)
\* One pass of the inner loop of insertion sort: x moves left past every
\* field whose tag value is greater.
insertField(sorted, x) ==
    IF sorted # <<>> /\ x.tagValue < sorted[Len(sorted)].tagValue
    THEN Append(insertField(SubSeq(sorted, 1, Len(sorted) - 1), x), sorted[Len(sorted)])
    ELSE Append(sorted, x)

RECURSIVE sortFields(_)
\* sort.Slice(fields, less by tagValue): for at most 12 elements the sort
\* package runs insertion sort.
sortFields(fields) ==
    IF fields = <<>> THEN <<>>
    ELSE insertField(sortFields(SubSeq(fields, 1, Len(fields) - 1)), fields[Len(fields)])

RECURSIVE maxTagValueFrom(_, _, _)
maxTagValueFrom(fields, k, m) ==
    IF k > Len(fields) THEN m
    ELSE maxTagValueFrom(fields, k + 1, IF fields[k].tagValue > m THEN fields[k].tagValue ELSE m)

\* Faulty variant of maxTagValue: the array gets one slot per field.
maxTagValueCount(fields) == Len(fields)

\* The greatest tag value, from 0: the length of the array.
maxTagValue(fields) == maxTagValueFrom(fields, 1, 0)

\* Faulty variant of arrayIndex: the tag value is taken for a 0-based index.
arrayIndexZeroBased(tv) == tv

\* Faulty variant of arrayIndex: a tag value below 1 names the first slot.
arrayIndexClamped(tv) == IF tv < 1 THEN 0 ELSE tv - 1

\* The 0-based index a tag value names.
arrayIndex(tv) == tv - 1

(***************************************************************************)
(* structToArray                                                           *)
(***************************************************************************)
RECURSIVE structToArray(_, _)
RECURSIVE placeFields(_, _, _, _, _)

RECURSIVE placeFieldsFlat(_, _, _, _, _)
\* Faulty variant of placeFields: a struct field is stored as its field values in
\* declaration order, its own tags unread.
placeFieldsFlat(t, rec, fields, k, result) ==
    IF k > Len(fields) THEN result
    ELSE LET fi  == fields[k]
             idx == arrayIndex(fi.tagValue)
         IN  IF idx < 0 \/ idx >= Len(result)
             THEN placeFieldsFlat(t, rec, fields, k + 1, result)
             ELSE placeFieldsFlat(t, rec, fields, k + 1,
                      [result EXCEPT ![idx + 1] =
                          IF t[fi.i].kind = "struct" THEN ArrV(rec[fi.i].fs) ELSE rec[fi.i]])

\* The last loop of structToArray from the k-th sorted field on: each field
\* whose index is inside the array is stored there, a struct field as the
\* array of its own fields.
placeFields(t, rec, fields, k, result) ==
    IF k > Len(fields) THEN result
    ELSE LET fi  == fields[k]
             idx == arrayIndex(fi.tagValue)
         IN  IF idx < 0 \/ idx >= Len(result)
             THEN placeFields(t, rec, fields, k + 1, result)
             ELSE placeFields(t, rec, fields, k + 1,
                      [result EXCEPT ![idx + 1] =
                          IF t[fi.i].kind = "struct"
                          THEN ArrV(structToArray(t[fi.i].sub, rec[fi.i].fs))
                          ELSE rec[fi.i]])

\* structToArray(v) for a record rec of type t: the array has maxTagValue
\* slots, all nil at first.  (Its error return is taken for a v that is no
\* struct only, which a record is not.)
structToArray(t, rec) ==
    LET fields == sortFields(collectFields(t))
        result == [i \in 1..maxTagValue(fields) |-> Null]
    IN  placeFields(t, rec, fields, 1, result)

(***************************************************************************)
(* setFieldValue                                                           *)
(***************************************************************************)
RECURSIVE formatV(_)
RECURSIVE formatVElems(_)
\* fmt.Sprintf("%v", value) of a decoded JSON value.
formatV(x) ==
    CASE x.k = "null" -> <<"<", "n", "i", "l", ">">>
      [] x.k = "string" -> x.s
      [] x.k = "float" -> FormatFloat(x.n)
      [] x.k = "bool" -> IF x.b THEN <<"t", "r", "u", "e">> ELSE <<"f", "a", "l", "s", "e">>
      [] x.k = "arr" -> <<"[">> \o formatVElems(x.a) \o <<"]">>

formatVElems(a) ==
    IF a = <<>> THEN <<>>
    ELSE IF Len(a) = 1 THEN formatV(a[1])
    ELSE formatV(a[1]) \o <<" ">> \o formatVElems(Tail(a))

\* int64(num) of a float64 of t tenths: the fraction is dropped.
truncate(t) == IF t < 0 THEN -((-t) \div 10) ELSE t \div 10

\* strconv.ParseFloat(str, 64) over the model's texts: an optional sign,
\* digits, and an optional point with digits; the value in tenths.
ParseFloat(s) ==
    LET signed == s # <<>> /\ Head(s) \in {"+", "-"}
        neg    == s # <<>> /\ Head(s) = "-"
        body   == IF signed THEN Tail(s) ELSE s
        i1     == DigitRun(body, 1)
        point  == i1 <= Len(body) /\ body[i1] = "."
        i2     == IF point THEN DigitRun(body, i1 + 1) ELSE i1
        int    == SubSeq(body, 1, i1 - 1)
        fd     == IF point /\ i2 > i1 + 1 THEN DigitVal(body[i1 + 1]) ELSE 0
        mag    == 10 * DigitsValue(int) + fd
    IN  IF i2 <= Len(body) \/ (int = <<>> /\ ~(point /\ i2 > i1 + 1))
        THEN [ok |-> FALSE, n |-> 0]
        ELSE [ok |-> TRUE, n |-> IF neg THEN -mag ELSE mag]

\* strconv.ParseBool
ParseBool(s) ==
    IF s \in {<<"1">>, <<"t">>, <<"T">>, <<"T", "R", "U", "E">>, <<"t", "r", "u", "e">>,
              <<"T", "r", "u", "e">>}
    THEN [ok |-> TRUE, b |-> TRUE]
    ELSE IF s \in {<<"0">>, <<"f">>, <<"F">>, <<"F", "A", "L", "S", "E">>,
                   <<"f", "a", "l", "s", "e">>, <<"F", "a", "l", "s", "e">>}
    THEN [ok |-> TRUE, b |-> FALSE]
    ELSE [ok |-> FALSE, b |-> FALSE]

\* reflect.TypeOf(value) == field.Type(): the decoded value has the very type
\* of the field (string, float64, bool, []interface{}).
sameType(kind, value) ==
    \/ kind = "string" /\ value.k = "string"
    \/ kind = "float" /\ value.k = "float"
    \/ kind = "bool" /\ value.k = "bool"
    \/ kind = "slice" /\ value.k = "arr"

\* Faulty variant of setFieldValue: a value no branch converts is an error.
setFieldValueStrict(kind, cur, value) ==
    IF value.k = "null" THEN [err |-> NoErr, val |-> cur]
    ELSE IF sameType(kind, value) THEN [err |-> NoErr, val |-> value]
    ELSE CASE kind = "string" -> [err |-> NoErr, val |-> StrV(formatV(value))]
           [] kind = "int" ->
                 IF value.k = "float" THEN [err |-> NoErr, val |-> IntV(truncate(value.n))]
                 ELSE IF value.k = "string" /\ Atoi(value.s).err = ""
                 THEN [err |-> NoErr, val |-> IntV(Atoi(value.s).n)]
                 ELSE [err |-> UnsupportedErr, val |-> cur]
           [] kind = "float" ->
                 IF value.k = "string" /\ ParseFloat(value.s).ok
                 THEN [err |-> NoErr, val |-> FloatV(ParseFloat(value.s).n)]
                 ELSE [err |-> UnsupportedErr, val |-> cur]
           [] kind = "bool" ->
                 IF value.k = "string" /\ ParseBool(value.s).ok
                 THEN [err |-> NoErr, val |-> BoolV(ParseBool(value.s).b)]
                 ELSE [err |-> UnsupportedErr, val |-> cur]
           [] OTHER -> [err |-> UnsupportedErr, val |-> cur]

\* Faulty variant of setFieldValue: the switch has no default branch.
setFieldValueNoDefault(kind, cur, value) ==
    IF value.k = "null" THEN [err |-> NoErr, val |-> cur]
    ELSE IF sameType(kind, value) THEN [err |-> NoErr, val |-> value]
    ELSE CASE kind = "string" -> [err |-> NoErr, val |-> StrV(formatV(value))]
           [] kind = "int" ->
                 IF value.k = "float" THEN [err |-> NoErr, val |-> IntV(truncate(value.n))]
                 ELSE IF value.k = "string" /\ Atoi(value.s).err = ""
                 THEN [err |-> NoErr, val |-> IntV(Atoi(value.s).n)]
                 ELSE [err |-> NoErr, val |-> cur]
           [] kind = "float" ->
                 IF value.k = "string" /\ ParseFloat(value.s).ok
                 THEN [err |-> NoErr, val |-> FloatV(ParseFloat(value.s).n)]
                 ELSE [err |-> NoErr, val |-> cur]
           [] kind = "bool" ->
                 IF value.k = "string" /\ ParseBool(value.s).ok
                 THEN [err |-> NoErr, val |-> BoolV(ParseBool(value.s).b)]
                 ELSE [err |-> NoErr, val |-> cur]
           [] OTHER -> [err |-> NoErr, val |-> cur]

\* setFieldValue(field, value) for a field of the given kind holding cur:
\* the error and what the field holds afterwards.
setFieldValue(kind, cur, value) ==
    IF value.k = "null" THEN [err |-> NoErr, val |-> cur]
    ELSE IF sameType(kind, value) THEN [err |-> NoErr, val |-> value]
    ELSE CASE kind = "string" -> [err |-> NoErr, val |-> StrV(formatV(value))]
           [] kind = "int" ->
                 IF value.k = "float" THEN [err |-> NoErr, val |-> IntV(truncate(value.n))]
                 ELSE IF value.k = "string" /\ Atoi(value.s).err = ""
                 THEN [err |-> NoErr, val |-> IntV(Atoi(value.s).n)]
                 ELSE [err |-> NoErr, val |-> cur]
           [] kind = "float" ->
                 IF value.k = "string" /\ ParseFloat(value.s).ok
                 THEN [err |-> NoErr, val |-> FloatV(ParseFloat(value.s).n)]
                 ELSE [err |-> NoErr, val |-> cur]
           [] kind = "bool" ->
                 IF value.k = "string" /\ ParseBool(value.s).ok
                 THEN [err |-> NoErr, val |-> BoolV(ParseBool(value.s).b)]
                 ELSE [err |-> NoErr, val |-> cur]
           [] OTHER -> [err |-> UnsupportedErr, val |-> cur]

(***************************************************************************)
(* arrayToStruct, populateStructFromArray                                  *)
(***************************************************************************)
RECURSIVE populateStructFromArray(_, _, _)
RECURSIVE populateFields(_, _, _, _, _)

\* The last loop of populateStructFromArray from the k-th sorted field on.
\* A struct field whose element is no array is passed over.
populateFields(t, val, a, fields, k) ==
    IF k > Len(fields) THEN [err |-> NoErr, val |-> val]
    ELSE LET fi  == fields[k]
             f   == t[fi.i]
             idx == arrayIndex(fi.tagValue)
         IN  IF idx < 0 \/ idx >= Len(a) THEN populateFields(t, val, a, fields, k + 1)
             ELSE LET arrValue == a[idx + 1] IN
                  IF f.kind = "struct"
                  THEN IF arrValue.k = "arr"
                       THEN LET r == populateStructFromArray(f.sub, val[fi.i].fs, arrValue.a)
                                nv == [val EXCEPT ![fi.i] = StructV(r.val)]
                            IN  IF r.err # NoErr
                                THEN [err |-> WrapErr(f.name, r.err), val |-> nv]
                                ELSE populateFields(t, nv, a, fields, k + 1)
                       ELSE populateFields(t, val, a, fields, k + 1)
                  ELSE LET r == setFieldValue(f.kind, val[fi.i], arrValue) IN
                       IF r.err # NoErr
                       THEN [err |-> WrapErr(f.name, r.err), val |-> val]
                       ELSE populateFields(t, [val EXCEPT ![fi.i] = r.val], a, fields, k + 1)

\* Faulty variant of populateStructFromArray: the field declared i-th is read from
\* index i - 1, its tag unread.
populateByDeclaration(t, val, a) ==
    LET fields == collectFields(t) IN
    populateFields(t, val, a, [k \in 1..Len(fields) |-> fieldInfo(fields[k].i, fields[k].i)], 1)

\* populateStructFromArray(structVal, arr) for a struct of type t holding val.
populateStructFromArray(t, val, a) ==
    populateFields(t, val, a, sortFields(collectFields(t)), 1)

RECURSIVE mapFields(_, _, _, _, _)
\* The last loop of arrayToStruct from the k-th sorted field on.  A struct
\* field whose element is no array is an error.
mapFields(t, val, a, fields, k) ==
    IF k > Len(fields) THEN [err |-> NoErr, val |-> val]
    ELSE LET fi  == fields[k]
             f   == t[fi.i]
             idx == arrayIndex(fi.tagValue)
         IN  IF idx < 0 \/ idx >= Len(a) THEN mapFields(t, val, a, fields, k + 1)
             ELSE LET arrValue == a[idx + 1] IN
                  IF f.kind = "struct"
                  THEN IF arrValue.k = "arr"
                       THEN LET r == populateStructFromArray(f.sub, val[fi.i].fs, arrValue.a)
                                nv == [val EXCEPT ![fi.i] = StructV(r.val)]
                            IN  IF r.err # NoErr
                                THEN [err |-> WrapErr(f.name, r.err), val |-> nv]
                                ELSE mapFields(t, nv, a, fields, k + 1)
                       ELSE [err |-> ShapeErr(f.name), val |-> val]
                  ELSE LET r == setFieldValue(f.kind, val[fi.i], arrValue) IN
                       IF r.err # NoErr
                       THEN [err |-> WrapErr(f.name, r.err), val |-> val]
                       ELSE mapFields(t, [val EXCEPT ![fi.i] = r.val], a, fields, k + 1)

\* Faulty variant of arrayToStruct: an array with fewer elements than the
\* greatest tag value is refused.
arrayToStructStrict(t, a, val) ==
    IF Len(a) < maxTagValue(collectFields(t))
    THEN [err |-> [kind |-> "length", fields |-> <<>>], val |-> val]
    ELSE mapFields(t, val, a, sortFields(collectFields(t)), 1)

\* arrayToStruct(arr, &target) for a target of record type t holding val.
\* (Its two TargetKind errors are taken for a target that is no pointer to a
\* struct only.)
arrayToStruct(t, a, val) ==
    mapFields(t, val, a, sortFields(collectFields(t)), 1)

(***************************************************************************)
(* MarshalExplicitSchema, UnmarshalExplicitSchema                          *)
(***************************************************************************)
\* Faulty variant of frameSize: the closing CRLF is not counted.
frameSizeBare(jsonData) == Len(jsonData)

\* The size a frame declares for its JSON text.
frameSize(jsonData) == Len(jsonData) + 2

\* fmt.Sprintf("%d\r\n%s\r\n", size, jsonData)
frame(size, jsonData) == Itoa(size) \o CRLF \o jsonData \o CRLF

\* MarshalExplicitSchema(v) for a record rec of type t.  (json.Marshal fails
\* on no value of the model.)
MarshalExplicitSchema(t, rec) ==
    LET jsonData == jsonMarshal(ArrV(structToArray(t, rec)))
    IN  frame(frameSize(jsonData), jsonData)

\* Faulty variant of actualSize: the closing CRLF is not counted.
actualSizeBare(jsonData) == Len(jsonData)

\* The size the decoder computes for the JSON text it found.
actualSize(jsonData) == Len(jsonData) + 2

\* Faulty variant of splitLines: the input is split on CRLF only.
splitLinesCRLF(d, min) == Split(d, CRLF)

\* The lines of the input: split on CRLF, and on LF when that gives fewer than min.
splitLines(d, min) ==
    IF Len(Split(d, CRLF)) < min THEN Split(d, <<LF>>) ELSE Split(d, CRLF)

\* Faulty variant of UnmarshalExplicitSchema: the JSON line is measured and
\* parsed as it stands, its surrounding whitespace kept.
UnmarshalUntrimmed(t, d) ==
    LET lines    == splitLines(d, 2)
        size     == Atoi(TrimSpace(lines[1]))
        jsonData == lines[2]
        actual   == actualSize(jsonData)
        parsed   == jsonUnmarshal(jsonData)
    IN  IF Len(lines) < 2 THEN [err |-> LinesErr, val |-> Zero(t)]
        ELSE IF size.err # "" THEN [err |-> SizeFormatErr, val |-> Zero(t)]
        ELSE IF actual # size.n THEN [err |-> SizeMismatchErr(size.n, actual), val |-> Zero(t)]
        ELSE IF ~parsed.ok THEN [err |-> JSONErr, val |-> Zero(t)]
        ELSE arrayToStruct(t, parsed.a, Zero(t))

\* Faulty variant of UnmarshalExplicitSchema: the JSON text is parsed before
\* the sizes are compared.
UnmarshalJSONFirst(t, d) ==
    LET lines    == splitLines(d, 2)
        size     == Atoi(TrimSpace(lines[1]))
        jsonData == TrimSpace(lines[2])
        actual   == actualSize(jsonData)
        parsed   == jsonUnmarshal(jsonData)
    IN  IF Len(lines) < 2 THEN [err |-> LinesErr, val |-> Zero(t)]
        ELSE IF size.err # "" THEN [err |-> SizeFormatErr, val |-> Zero(t)]
        ELSE IF ~parsed.ok THEN [err |-> JSONErr, val |-> Zero(t)]
        ELSE IF actual # size.n THEN [err |-> SizeMismatchErr(size.n, actual), val |-> Zero(t)]
        ELSE arrayToStruct(t, parsed.a, Zero(t))

\* Faulty variant of UnmarshalExplicitSchema: an input of more than two lines
\* and a closing empty one is refused.
UnmarshalExactLines(t, d) ==
    LET lines    == splitLines(d, 2)
        size     == Atoi(TrimSpace(lines[1]))
        jsonData == TrimSpace(lines[2])
        actual   == actualSize(jsonData)
        parsed   == jsonUnmarshal(jsonData)
    IN  IF Len(lines) < 2 \/ Len(lines) > 3 THEN [err |-> LinesErr, val |-> Zero(t)]
        ELSE IF size.err # "" THEN [err |-> SizeFormatErr, val |-> Zero(t)]
        ELSE IF actual # size.n THEN [err |-> SizeMismatchErr(size.n, actual), val |-> Zero(t)]
        ELSE IF ~parsed.ok THEN [err |-> JSONErr, val |-> Zero(t)]
        ELSE arrayToStruct(t, parsed.a, Zero(t))

\* UnmarshalExplicitSchema[T](data) for T the record type t.
UnmarshalExplicitSchema(t, d) ==
    LET lines    == splitLines(d, 2)
        size     == Atoi(TrimSpace(lines[1]))
        jsonData == TrimSpace(lines[2])
        actual   == actualSize(jsonData)
        parsed   == jsonUnmarshal(jsonData)
    IN  IF Len(lines) < 2 THEN [err |-> LinesErr, val |-> Zero(t)]
        ELSE IF size.err # "" THEN [err |-> SizeFormatErr, val |-> Zero(t)]
        ELSE IF actual # size.n THEN [err |-> SizeMismatchErr(size.n, actual), val |-> Zero(t)]
        ELSE IF ~parsed.ok THEN [err |-> JSONErr, val |-> Zero(t)]
        ELSE arrayToStruct(t, parsed.a, Zero(t))

(***************************************************************************)
(* MarshalImplicitSchema, UnmarshalImplicitSchema                          *)
(*                                                                         *)
(* An ImplicitSchema ([]any) is the value Null (the nil slice) or an arr.  *)
(* The stream codec calls both with a second argument, true: the framed    *)
(* form, which is the form these two functions have.                       *)
(***************************************************************************)
\* Faulty variant of MarshalImplicitSchema: the closing CRLF is not counted.
MarshalImplicitBare(schema) ==
    LET jsonData == jsonMarshal(schema)
        size     == Len(jsonData)
    IN  frame(size, jsonData)

\* MarshalImplicitSchema(schema)
MarshalImplicitSchema(schema) ==
    LET jsonData == jsonMarshal(schema)
        size     == Len(jsonData) + 2
    IN  frame(size, jsonData)

\* json.Unmarshal(text, &result) for result of type ImplicitSchema: an array
\* gives its elements, null leaves the nil slice, anything else is an error.
jsonUnmarshalSchema(text) ==
    LET r == ParseValue(text, 1) IN
    IF ~r.ok \/ SkipSpace(text, r.i) <= Len(text) THEN [ok |-> FALSE, x |-> Null]
    ELSE IF r.x.k \in {"arr", "null"} THEN [ok |-> TRUE, x |-> r.x]
    ELSE [ok |-> FALSE, x |-> Null]

\* UnmarshalImplicitSchema(data): the error and the schema, nil with an error.
UnmarshalImplicitSchema(d) ==
    LET lines    == splitLines(d, 2)
        size     == Atoi(TrimSpace(lines[1]))
        jsonData == TrimSpace(lines[2])
        actual   == Len(jsonData) + 2
        parsed   == jsonUnmarshalSchema(jsonData)
    IN  IF Len(lines) < 2 THEN [err |-> LinesErr, val |-> Null]
        ELSE IF size.err # "" THEN [err |-> SizeFormatErr, val |-> Null]
        ELSE IF actual # size.n THEN [err |-> SizeMismatchErr(size.n, actual), val |-> Null]
        ELSE IF ~parsed.ok THEN [err |-> JSONErr, val |-> Null]
        ELSE [err |-> NoErr, val |-> parsed.x]

(***************************************************************************)
(* Stream, MarshalImplicitStream, UnmarshalImplicitStream                  *)
(***************************************************************************)
\* A *Stream: Null (nil) or the struct.
Stream(magicByte, schemas) == [k |-> "stream", MagicByte |-> magicByte, Schemas |-> schemas]

\* "invalid stream format: expected at least 3 lines"
StreamLinesErr == [kind |-> "streamlines", min |-> 3]
\* "failed to parse schema at line %d: %v"
StreamSchemaErr(line, e) == [kind |-> "schema", line |-> line, cause |-> e]
\* "stream cannot be nil"
NilStreamErr == [kind |-> "nilstream"]

\* The fewest lines a stream has.
minStreamLines == 3

RECURSIVE parsePairsReversed(_, _, _, _)
\* Faulty variant of parsePairs: a schema read is put before the ones read so far.
parsePairsReversed(lines, lineEnding, i, schemas) ==
    IF ~(i < Len(lines) - 1)
    THEN [err |-> NoErr, val |-> Stream(lines[1], schemas)]
    ELSE IF TrimSpace(lines[i + 1]) = <<>>
    THEN parsePairsReversed(lines, lineEnding, i + 1, schemas)
    ELSE LET sizeData == lines[i + 1] \o lineEnding \o lines[i + 2] \o lineEnding
             r        == UnmarshalImplicitSchema(sizeData)
         IN  IF r.err # NoErr
             THEN [err |-> StreamSchemaErr(i, r.err), val |-> Null]
             ELSE parsePairsReversed(lines, lineEnding, i + 2, <<r.val>> \o schemas)

RECURSIVE parsePairsPartial(_, _, _, _)
\* Faulty variant of parsePairs: with an error, the schemas read before it are returned.
parsePairsPartial(lines, lineEnding, i, schemas) ==
    IF ~(i < Len(lines) - 1)
    THEN [err |-> NoErr, val |-> Stream(lines[1], schemas)]
    ELSE IF TrimSpace(lines[i + 1]) = <<>>
    THEN parsePairsPartial(lines, lineEnding, i + 1, schemas)
    ELSE LET sizeData == lines[i + 1] \o lineEnding \o lines[i + 2] \o lineEnding
             r        == UnmarshalImplicitSchema(sizeData)
         IN  IF r.err # NoErr
             THEN [err |-> StreamSchemaErr(i, r.err), val |-> Stream(lines[1], schemas)]
             ELSE parsePairsPartial(lines, lineEnding, i + 2, Append(schemas, r.val))

RECURSIVE parsePairsNoSkip(_, _, _, _)
\* Faulty variant of parsePairs: an empty line is not skipped, it is read as a size line.
parsePairsNoSkip(lines, lineEnding, i, schemas) ==
    IF ~(i < Len(lines) - 1)
    THEN [err |-> NoErr, val |-> Stream(lines[1], schemas)]
    ELSE LET sizeData == lines[i + 1] \o lineEnding \o lines[i + 2] \o lineEnding
             r        == UnmarshalImplicitSchema(sizeData)
         IN  IF r.err # NoErr
             THEN [err |-> StreamSchemaErr(i, r.err), val |-> Null]
             ELSE parsePairsNoSkip(lines, lineEnding, i + 2, Append(schemas, r.val))

RECURSIVE parsePairs(_, _, _, _)
\* The loop of UnmarshalImplicitStream with i (counted from 0 as in the code)
\* the line it stands at and schemas the ones read so far.
parsePairs(lines, lineEnding, i, schemas) ==
    IF ~(i < Len(lines) - 1)
    THEN [err |-> NoErr, val |-> Stream(lines[1], schemas)]
    ELSE IF TrimSpace(lines[i + 1]) = <<>>
    THEN parsePairs(lines, lineEnding, i + 1, schemas)
    ELSE LET sizeData == lines[i + 1] \o lineEnding \o lines[i + 2] \o lineEnding
             r        == UnmarshalImplicitSchema(sizeData)
         IN  IF r.err # NoErr
             THEN [err |-> StreamSchemaErr(i, r.err), val |-> Null]
             ELSE parsePairs(lines, lineEnding, i + 2, Append(schemas, r.val))

\* Faulty variant of UnmarshalImplicitStream: the magic byte is trimmed.
UnmarshalStreamTrimmed(d) ==
    LET crlf       == Split(d, CRLF)
        unix       == Len(crlf) < minStreamLines
        lines      == IF unix THEN Split(d, <<LF>>) ELSE crlf
        lineEnding == IF unix THEN <<LF>> ELSE CRLF
    IN  IF Len(lines) < minStreamLines THEN [err |-> StreamLinesErr, val |-> Null]
        ELSE parsePairs([lines EXCEPT ![1] = TrimSpace(@)], lineEnding, 2, <<>>)

\* Faulty variant of UnmarshalImplicitStream: two lines are enough.
UnmarshalStreamTwoLines(d) ==
    LET crlf       == Split(d, CRLF)
        unix       == Len(crlf) < 2
        lines      == IF unix THEN Split(d, <<LF>>) ELSE crlf
        lineEnding == IF unix THEN <<LF>> ELSE CRLF
    IN  IF Len(lines) < 2 THEN [err |-> StreamLinesErr, val |-> Null]
        ELSE parsePairs(lines, lineEnding, 2, <<>>)

\* Faulty variant of UnmarshalImplicitStream: the input is split on LF whenever it holds
\* a bare LF, and on CRLF otherwise.
UnmarshalStreamLFFirst(d) ==
    LET unix       == \E k \in 1..Len(d) : d[k] = LF /\ (k = 1 \/ d[k - 1] # CR)
        lines      == IF unix THEN Split(d, <<LF>>) ELSE Split(d, CRLF)
        lineEnding == IF unix THEN <<LF>> ELSE CRLF
    IN  IF Len(lines) < minStreamLines THEN [err |-> StreamLinesErr, val |-> Null]
        ELSE parsePairs(lines, lineEnding, 2, <<>>)

\* UnmarshalImplicitStream(data): the error and the *Stream, nil with an error.
UnmarshalImplicitStream(d) ==
    LET crlf       == Split(d, CRLF)
        unix       == Len(crlf) < minStreamLines
        lines      == IF unix THEN Split(d, <<LF>>) ELSE crlf
        lineEnding == IF unix THEN <<LF>> ELSE CRLF
    IN  IF Len(lines) < minStreamLines THEN [err |-> StreamLinesErr, val |-> Null]
        ELSE parsePairs(lines, lineEnding, 2, <<>>)

RECURSIVE appendSchemas(_, _)
\* The loop of MarshalImplicitStream: result with every schema's frame appended.
appendSchemas(result, schemas) ==
    IF schemas = <<>> THEN result
    ELSE appendSchemas(result \o MarshalImplicitSchema(Head(schemas)), Tail(schemas))

\* Faulty variant of streamHead: no empty line after the magic byte.
streamHeadOneLine(magicByte) == magicByte \o CRLF

\* The first bytes of a marshalled stream: the magic byte and an empty line.
streamHead(magicByte) == magicByte \o CRLF \o CRLF

\* MarshalImplicitStream(stream): the error and the bytes.
MarshalImplicitStream(stream) ==
    IF stream = Null THEN [err |-> NilStreamErr, data |-> <<>>]
    ELSE [err |-> NoErr, data |-> appendSchemas(streamHead(stream.MagicByte), stream.Schemas)]

(***************************************************************************)
(* The inputs of the model                                                 *)
(***************************************************************************)
\* Explicit tags write the positions 1..MaxPos.
MaxPos == 3
\* A flat record declares at most MaxFields fields.
MaxFields == 3

FieldNames == <<"F1", "F2", "F3", "F4", "F5", "F6">>
Letters == <<"a", "b", "c", "d", "e", "f">>

NoTag == <<>>
NumTags == {Itoa(p) : p \in 1..MaxPos}
\* Tags that write no position >= 1, or no number at all.
OddTags == {<<"0">>, <<"-", "1">>, <<"x">>, <<"+", "2">>}

\* An exported string field, declared i-th.
S(i, tag) == Field(FieldNames[i], TRUE, tag, "string", <<>>)
\* An exported struct field, declared i-th.
St(i, tag, sub) == Field(FieldNames[i], TRUE, tag, "struct", sub)
\* An untagged field of a scalar kind, declared i-th.
K(i, kind) == Field(FieldNames[i], TRUE, NoTag, kind, <<>>)
\* An unexported, untagged string field.
U(i) == Field(FieldNames[i], FALSE, NoTag, "string", <<>>)

\* Records of string fields, tagged 1..MaxPos or untagged, in every order.
OrderTypes ==
    UNION {{[i \in 1..n |-> S(i, tg[i])] : tg \in [1..n -> NumTags \cup {NoTag}]} :
           n \in 0..MaxFields}

ScalarKinds == {"string", "int", "float", "bool", "uint", "slice"}
KindFields(i) == {K(i, kind) : kind \in ScalarKinds} \cup {U(i)}
\* Untagged records of one or two fields of every kind.
KindTypes ==
    {<<f>> : f \in KindFields(1)} \cup {<<f, g>> : f \in KindFields(1), g \in KindFields(2)}

\* Records of one or two string fields with a tag that names no slot.
OddTagTypes ==
    LET tags == OddTags \cup {<<"1">>} IN
    {<<S(1, t)>> : t \in tags} \cup {<<S(1, t), S(2, u)>> : t \in tags, u \in tags}

\* Nested records: one or two string fields at distinct positions.
LeafTypes ==
    {<<S(1, t)>> : t \in NumTags}
        \cup UNION {{<<S(1, t), S(2, u)>> : u \in NumTags \ {t}} : t \in NumTags}
\* A record with a nested record and a string, at positions 1 and 2 either way round.
TwoLevelTypes ==
    LET pairs == {<<<<"1">>, <<"2">>>>, <<<<"2">>, <<"1">>>>} IN
    UNION {{<<St(1, p[1], l), S(2, p[2])>>, <<S(1, p[2]), St(2, p[1], l)>>} :
           p \in pairs, l \in LeafTypes}
\* A record nested in a record nested in a record.
ThreeLevelTypes ==
    {<<St(1, <<"1">>, <<St(1, t, l)>>)>> : t \in NumTags, l \in LeafTypes}

Types == OrderTypes \cup KindTypes \cup OddTagTypes \cup TwoLevelTypes \cup ThreeLevelTypes

\* The values a field declared i-th takes in the records handed to the encoder.
RECURSIVE RecValues(_)
FieldValues(f, i) ==
    CASE f.kind = "string" -> {StrV(<<>>), StrV(<<Letters[i]>>)}
      [] f.kind = "int" -> {IntV(0), IntV(7), IntV(-12)}
      [] f.kind = "uint" -> {UintV(0), UintV(3)}
      [] f.kind = "float" -> {FloatV(0), FloatV(15)}
      [] f.kind = "bool" -> {BoolV(FALSE), BoolV(TRUE)}
      [] f.kind = "slice" -> {Null, ArrV(<<StrV(<<"s">>)>>)}
      [] f.kind = "struct" -> {StructV(x) : x \in RecValues(f.sub)}

\* The records of type t handed to the encoder.
RecValues(t) ==
    {rec \in [1..Len(t) -> UNION {FieldValues(t[i], i) : i \in 1..Len(t)}] :
        \A i \in 1..Len(t) : rec[i] \in FieldValues(t[i], i)}

\* The locals of UnmarshalImplicitStream before its first statement.
NoLoop == [lines |-> <<>>, lineEnding |-> <<>>, i |-> 0, schemas |-> <<>>]

Init ==
    /\ pc = "start"
    /\ T \in Types
    /\ v = <<>>
    /\ arr = <<>>
    /\ data = <<>>
    /\ wire = <<>>
    /\ res = [err |-> NoErr, val |-> <<>>]
    /\ loop = NoLoop

\* A test calls structToArray on a record.
StructToArrayCall ==
    /\ pc = "start"
    /\ \E rec \in RecValues(T) :
          /\ v' = rec
          /\ arr' = structToArray(T, rec)
    /\ pc' = "structToArray"
    /\ UNCHANGED <<T, data, wire, res, loop>>

\* A caller marshals a record.
MarshalCall ==
    /\ pc = "start"
    /\ \E rec \in RecValues(T) :
          /\ v' = rec
          /\ data' = MarshalExplicitSchema(T, rec)
    /\ pc' = "Marshal"
    /\ UNCHANGED <<T, arr, wire, res, loop>>

\* A declared size is replaced by one that differs by up to MaxDelta.
MaxDelta == 1

\* Twenty digits: an integer no int holds.
HugeSize == <<"1">> \o MaxInt64Digits

\* The frame d with its size line replaced by the text size.
Redeclare(d, size) == size \o SubSeq(d, IndexFrom(d, CRLF, 1), Len(d))

\* The size a frame declares (frames of the encoder).
Declared(d) == Atoi(SubSeq(d, 1, IndexFrom(d, CRLF, 1) - 1)).n

\* What a decoder is handed for the frame d: d itself, or d declaring another integer.
Received(d) ==
    {d} \cup {Redeclare(d, Itoa(Declared(d) + k)) : k \in (-MaxDelta..MaxDelta) \ {0}}
        \cup {Redeclare(d, Itoa(-Declared(d))), Redeclare(d, HugeSize)}

Elems ==
    {Null, StrV(<<"a">>), StrV(<<"7">>), FloatV(15), BoolV(TRUE),
     ArrV(<<StrV(<<"c">>), StrV(<<"d">>)>>)}
\* Every array of up to two elements.
ShortArrays == {<<>>} \cup {<<e>> : e \in Elems} \cup {<<e, f>> : e \in Elems, f \in Elems}

\* Arrays of strings of up to MaxPos + 1 elements with at most one null among them.
LongArrays ==
    UNION {{[i \in 1..n |-> IF i = hole THEN Null ELSE StrV(<<Letters[i]>>)] : hole \in 0..n} :
           n \in 0..(MaxPos + 1)}

SubArrays ==
    {<<>>, <<StrV(<<"c">>)>>, <<StrV(<<"c">>), StrV(<<"d">>)>>,
     <<StrV(<<"c">>), StrV(<<"d">>), StrV(<<"e">>)>>, <<Null, StrV(<<"d">>)>>,
     <<StrV(<<"c">>), Null, StrV(<<"e">>)>>, <<FloatV(10), StrV(<<"d">>)>>}
\* Arrays that hold arrays, to two levels.
DeepArrays ==
    {<<ArrV(<<e>>)>> : e \in Elems \cup {ArrV(s) : s \in SubArrays}}
        \cup UNION {{<<ArrV(s), x>>, <<x, ArrV(s)>>} : s \in SubArrays, x \in {Null, StrV(<<"a">>)}}

\* The arrays a record of type t is decoded from.
DecodeArrays(t) ==
    IF t \in OrderTypes THEN LongArrays ELSE ShortArrays \cup DeepArrays

\* A caller unmarshals the bytes a marshalled record arrived as.
UnmarshalCall ==
    /\ pc = "Marshal"
    /\ \E w \in Received(data) :
          /\ wire' = w
          /\ res' = UnmarshalExplicitSchema(T, w)
    /\ pc' = "Unmarshal"
    /\ UNCHANGED <<T, v, arr, data, loop>>

\* A test calls arrayToStruct on an array and a zero record.
ArrayToStructCall ==
    /\ pc = "start"
    /\ \E a \in DecodeArrays(T) :
          /\ arr' = a
          /\ res' = arrayToStruct(T, a, Zero(T))
    /\ pc' = "arrayToStruct"
    /\ UNCHANGED <<T, v, data, wire, loop>>

(***************************************************************************)
(* Callers of the implicit codec and of the stream codec.  They have no    *)
(* record type: T is the empty record type in their calls.                 *)
(***************************************************************************)
\* A dynamic sequence holds at most MaxElems elements.
MaxElems == 2

Test1 == StrV(<<"t", "e", "s", "t", "1">>)
Test2 == StrV(<<"t", "e", "s", "t", "2">>)

\* The elements of the dynamic sequences: every JSON kind, texts with the
\* bytes the encoder escapes, a Go int.
SchemaElems ==
    {Null, Test1, StrV(<<>>), StrV(<<CR, LF>>), StrV(<<Quote, " ", Backslash>>),
     IntV(42), FloatV(15), FloatV(-5), BoolV(TRUE), BoolV(FALSE),
     ArrV(<<>>), ArrV(<<StrV(<<"b">>), Null>>)}

\* The dynamic sequences handed to MarshalImplicitSchema: nil, and every
\* sequence of up to MaxElems elements, and the sequences of the tests.
Schemas ==
    {Null, ArrV(<<Test1, Test2>>), ArrV(<<Test1, Test2, IntV(42), BoolV(TRUE)>>)}
        \cup UNION {{ArrV(a) : a \in [1..n -> SchemaElems]} : n \in 0..MaxElems}

\* A caller marshals a dynamic sequence.
MarshalImplicitCall ==
    /\ pc = "start"
    /\ T = <<>>
    /\ \E schema \in Schemas :
          /\ v' = schema
          /\ data' = MarshalImplicitSchema(schema)
    /\ pc' = "MarshalImplicit"
    /\ UNCHANGED <<T, arr, wire, res, loop>>

\* The caller unmarshals the frame it marshalled.
UnmarshalImplicitCall ==
    /\ pc = "MarshalImplicit"
    /\ wire' = data
    /\ res' = UnmarshalImplicitSchema(data)
    /\ pc' = "UnmarshalImplicit"
    /\ UNCHANGED <<T, v, arr, data, loop>>

\* The caller marshals the sequence it unmarshalled.
RemarshalImplicitCall ==
    /\ pc = "UnmarshalImplicit"
    /\ res.err = NoErr
    /\ data' = MarshalImplicitSchema(res.val)
    /\ pc' = "RemarshalImplicit"
    /\ UNCHANGED <<T, v, arr, wire, res, loop>>

\* The bytes of a frame written by hand: a size line, a separator, a payload
\* line and what ends it.
FrameBytes(f) == f.size \o f.sep \o f.payload \o f.term

SizeTexts ==
    {<<"5">>, <<"7">>, <<"4">>, <<"6">>, <<"-", "5">>, <<"+", "5">>, <<"0", "5">>, <<" ", "5">>,
     <<"5", " ">>, <<"x">>, <<"5", ".", "0">>, <<>>, HugeSize}
PayloadTexts ==
    {<<"[", "1", "]">>, <<" ", "[", "1", "]">>, <<"[", "1", "]", " ">>, <<"[", "1", ",">>,
     <<"[", "]">>, <<"1", "1", "1">>, <<"[", "1", ",", "2", "]">>, <<>>}
\* Frames written by hand, and inputs that are no two lines.
FrameInputs ==
    [size : SizeTexts, sep : {CRLF, <<LF>>}, payload : PayloadTexts, term : {CRLF, <<LF>>, <<>>}]
        \cup [size : SizeTexts, sep : {<<>>}, payload : {<<>>}, term : {<<>>}]

\* The record type frames written by hand are decoded at: one float64 field.
FrameType == <<K(1, "float")>>

\* A caller unmarshals a frame written by hand.
DecodeFrameCall ==
    /\ pc = "start"
    /\ T = FrameType
    /\ \E f \in FrameInputs :
          /\ v' = f
          /\ wire' = FrameBytes(f)
          /\ res' = UnmarshalExplicitSchema(T, FrameBytes(f))
    /\ pc' = "DecodeFrame"
    /\ UNCHANGED <<T, arr, data, loop>>

\* A stream holds at most MaxFrames frames.
MaxFrames == 2

Data1 == StrV(<<"d", "a", "t", "a", "1">>)
MagicByte == <<")", "]", "}", "'">>
\* Markers: the one of the tests, none, and others of any content.
Markers == {MagicByte, <<>>, <<"5">>, <<" ", "x", CR>>, <<"a", LF, "b">>}

StreamSchemas ==
    {Null, ArrV(<<>>), ArrV(<<Test1, Test2>>), ArrV(<<Data1, IntV(42)>>),
     ArrV(<<StrV(<<CR, LF>>), Null>>)}
\* The streams handed to MarshalImplicitStream, nil among them.
Streams ==
    {Null} \cup
    UNION {{Stream(m, fs) : m \in Markers, fs \in [1..n -> StreamSchemas]} : n \in 0..MaxFrames}

\* A caller marshals a stream.
MarshalStreamCall ==
    /\ pc = "start"
    /\ T = <<>>
    /\ \E stream \in Streams :
          /\ v' = stream
          /\ data' = MarshalImplicitStream(stream).data
          /\ res' = [err |-> MarshalImplicitStream(stream).err, val |-> Null]
    /\ pc' = "MarshalStream"
    /\ UNCHANGED <<T, arr, wire, loop>>

\* The caller unmarshals the stream it marshalled.
UnmarshalStreamCall ==
    /\ pc = "MarshalStream"
    /\ res.err = NoErr
    /\ wire' = data
    /\ res' = UnmarshalImplicitStream(data)
    /\ pc' = "UnmarshalStream"
    /\ UNCHANGED <<T, v, arr, data, loop>>

\* A stream written by hand has at most MaxItems frames and blank lines after its head.
MaxItems == 3

\* What follows the head of a stream written by hand, by kind: blank lines,
\* a frame of the encoder, frames that fail to decode, a size line alone.
ItemLines(kind) ==
    CASE kind = "blank" -> <<<<>>>>
      [] kind = "space" -> <<<<" ">>>>
      [] kind = "good" -> <<<<"5">>, <<"[", "1", "]">>>>
      [] kind = "mismatch" -> <<<<"7">>, <<"[", "1", "]">>>>
      [] kind = "badsize" -> <<<<"x">>, <<"[", "1", "]">>>>
      [] kind = "badjson" -> <<<<"5">>, <<"[", "1", ",">>>>
      [] kind = "alone" -> <<<<"5">>>>
ItemKinds == {"blank", "space", "good", "mismatch", "badsize", "badjson", "alone"}

RECURSIVE ItemsLines(_)
ItemsLines(items) ==
    IF items = <<>> THEN <<>> ELSE ItemLines(Head(items)) \o ItemsLines(Tail(items))

RECURSIVE Join(_, _)
\* strings.Join
Join(lines, sep) ==
    IF lines = <<>> THEN <<>>
    ELSE IF Len(lines) = 1 THEN lines[1]
    ELSE lines[1] \o sep \o Join(Tail(lines), sep)

\* The lines of a stream written by hand: the marker, the lines of its head
\* after the marker (one blank line when the head is as it should be) and the items' lines.
StreamLines(st) == <<st.marker>> \o st.second \o ItemsLines(st.items)

\* Its bytes: the lines joined by its line ending, which also ends the last if st.closed.
StreamBytes(st) ==
    Join(StreamLines(st), st.le) \o (IF st.closed THEN st.le ELSE <<>>)

\* Streams written by hand: a marker alone, or a marker, a second line
\* (blank, or not) and items.
StreamInputs ==
    [marker : {MagicByte, <<"a", LF, "b">>}, second : {<<>>}, items : {<<>>},
     le : {CRLF, <<LF>>}, closed : BOOLEAN]
    \cup UNION {[marker : {MagicByte, <<>>},
                 second : {<<<<>>>>, <<<<"x">>>>, <<<<"5">>>>},
                 items : [1..n -> ItemKinds],
                 le : {CRLF, <<LF>>}, closed : BOOLEAN] : n \in 0..MaxItems}

\* A caller unmarshals a stream written by hand.
DecodeStreamCall ==
    /\ pc = "start"
    /\ T = <<>>
    /\ \E st \in StreamInputs :
          /\ v' = st
          /\ wire' = StreamBytes(st)
          /\ res' = UnmarshalImplicitStream(StreamBytes(st))
    /\ pc' = "DecodeStream"
    /\ UNCHANGED <<T, arr, data, loop>>

\* Streams written by hand whose head ends its two lines in CRLF and whose
\* items end theirs in bare LF.
MixedInputs ==
    UNION {[marker : {MagicByte, <<>>}, items : [1..n -> ItemKinds], closed : BOOLEAN] :
           n \in 0..MaxItems}

\* Their bytes.
MixedBytes(st) ==
    st.marker \o CRLF \o CRLF \o Join(ItemsLines(st.items), <<LF>>)
        \o (IF st.closed /\ st.items # <<>> THEN <<LF>> ELSE <<>>)

\* A caller unmarshals such a stream.
DecodeMixedCall ==
    /\ pc = "start"
    /\ T = <<>>
    /\ \E st \in MixedInputs :
          /\ v' = st
          /\ wire' = MixedBytes(st)
          /\ res' = UnmarshalImplicitStream(MixedBytes(st))
    /\ pc' = "DecodeMixed"
    /\ UNCHANGED <<T, arr, data, loop>>

\* Bytes that follow a frame in the input: none, text, blanks, terminators
\* and another frame.
Tails ==
    {<<>>, <<"x">>, <<" ">>, <<LF>>, <<CR>>, CRLF, <<"x">> \o CRLF,
     <<"5">> \o CRLF \o <<"[", "1", "]">> \o CRLF, <<"5", LF, "[", "1", "]", LF>>}

\* Frames written by hand with bytes after the payload line's terminator,
\* and frames whose payload line has no terminator.
TailInputs ==
    {i \in [f : FrameInputs, tail : Tails] :
        /\ i.f.sep # <<>>
        /\ i.f.term = <<>> => i.tail = <<>>}

\* A caller unmarshals a frame written by hand and the bytes after it.
DecodeTailCall ==
    /\ pc = "start"
    /\ T = FrameType
    /\ \E i \in TailInputs :
          /\ v' = i
          /\ wire' = FrameBytes(i.f) \o i.tail
          /\ res' = UnmarshalExplicitSchema(T, FrameBytes(i.f) \o i.tail)
    /\ pc' = "DecodeTail"
    /\ UNCHANGED <<T, arr, data, loop>>

Next ==
    \/ StructToArrayCall
    \/ MarshalCall
    \/ UnmarshalCall
    \/ ArrayToStructCall
    \/ MarshalImplicitCall
    \/ UnmarshalImplicitCall
    \/ RemarshalImplicitCall
    \/ DecodeFrameCall
    \/ MarshalStreamCall
    \/ UnmarshalStreamCall
    \/ DecodeStreamCall
    \/ DecodeMixedCall
    \/ DecodeTailCall

Spec == Init /\ [][Next]_vars

(***************************************************************************)
(* UnmarshalImplicitStream, statement by statement.  pc is where the call  *)
(* stands: "ExpectMarker" on entry, "ExpectBlank" once the lines are split *)
(* and the magic byte taken, "ExpectSizeLine" at the head of the loop,     *)
(* "ExpectPayloadLine" inside it with a size line in hand, and "Done" or   *)
(* "Failed" once it has returned.                                          *)
(***************************************************************************)
\* On entry: the argument is not read yet.
StreamInit ==
    /\ pc = "ExpectMarker"
    /\ T = <<>>
    /\ v = <<>>
    /\ arr = <<>>
    /\ data = <<>>
    /\ wire = <<>>
    /\ res = [err |-> NoErr, val |-> Null]
    /\ loop = NoLoop

\* The streams written by hand that the call is followed on: the marker of
\* the tests, and after the head blank lines, frames that decode, frames
\* that do not and size lines alone.
StepInputs ==
    {st \in StreamInputs :
        /\ st.marker # <<>>
        /\ st.second # <<<<"5">>>>
        /\ \A k \in 1..Len(st.items) : st.items[k] \in {"blank", "space", "good", "badjson", "alone"}}

\* Each of them with strings.Split of its bytes on CRLF and on LF.
SplitInputs ==
    {[st |-> st, crlf |-> Split(StreamBytes(st), CRLF), lf |-> Split(StreamBytes(st), <<LF>>)] :
        st \in StepInputs}

\* Every two lines that follow one another in them, joined as the loop joins them.
PairInputs ==
    UNION {{e.crlf[k] \o CRLF \o e.crlf[k + 1] \o CRLF : k \in 1..(Len(e.crlf) - 1)}
               \cup {e.lf[k] \o <<LF>> \o e.lf[k + 1] \o <<LF>> : k \in 1..(Len(e.lf) - 1)} :
           e \in SplitInputs}

\* UnmarshalImplicitSchema of each of them.
SchemaOf == {[d |-> d, r |-> UnmarshalImplicitSchema(d)] : d \in PairInputs}

\* The call is handed a stream written by hand: the split, its fallback,
\* the line count's check, the magic byte.
SplitLines ==
    /\ pc = "ExpectMarker"
    /\ \E e \in SplitInputs :
          LET unix       == Len(e.crlf) < minStreamLines
              lines      == IF unix THEN e.lf ELSE e.crlf
              lineEnding == IF unix THEN <<LF>> ELSE CRLF
          IN  /\ v' = e.st
              /\ wire' = StreamBytes(e.st)
              /\ IF Len(lines) < minStreamLines
                 THEN /\ res' = [err |-> StreamLinesErr, val |-> Null]
                      /\ pc' = "Failed"
                      /\ UNCHANGED loop
                 ELSE /\ loop' = [loop EXCEPT !.lines = lines, !.lineEnding = lineEnding]
                      /\ pc' = "ExpectBlank"
                      /\ UNCHANGED res
    /\ UNCHANGED <<T, arr, data>>

\* `var schemas []ImplicitSchema; i := 2`: the line after the marker is passed over unread.
StartLoop ==
    /\ pc = "ExpectBlank"
    /\ loop' = [loop EXCEPT !.i = 2, !.schemas = <<>>]
    /\ pc' = "ExpectSizeLine"
    /\ UNCHANGED <<T, v, arr, data, wire, res>>

\* Faulty variant of SkipEmptyLine: i is not incremented.
SkipEmptyLineInPlace ==
    /\ pc = "ExpectSizeLine"
    /\ loop.i < Len(loop.lines) - 1
    /\ TrimSpace(loop.lines[loop.i + 1]) = <<>>
    /\ UNCHANGED vars

\* The loop's guard holds and lines[i] is blank: i++; continue.
SkipEmptyLine ==
    /\ pc = "ExpectSizeLine"
    /\ loop.i < Len(loop.lines) - 1
    /\ TrimSpace(loop.lines[loop.i + 1]) = <<>>
    /\ loop' = [loop EXCEPT !.i = @ + 1]
    /\ UNCHANGED <<pc, T, v, arr, data, wire, res>>

\* The loop's guard holds and lines[i] is not blank: it is a size line.
TakeSizeLine ==
    /\ pc = "ExpectSizeLine"
    /\ loop.i < Len(loop.lines) - 1
    /\ TrimSpace(loop.lines[loop.i + 1]) # <<>>
    /\ pc' = "ExpectPayloadLine"
    /\ UNCHANGED <<T, v, arr, data, wire, res, loop>>

\* lines[i] and lines[i+1] are joined and decoded (i + 1 < len(lines) holds
\* by the loop's guard): an error returns, a schema is appended and i += 2.
DecodePair ==
    /\ pc = "ExpectPayloadLine"
    /\ LET sizeData == loop.lines[loop.i + 1] \o loop.lineEnding
                           \o loop.lines[loop.i + 2] \o loop.lineEnding
           r        == (CHOOSE e \in SchemaOf : e.d = sizeData).r
       IN  IF r.err # NoErr
           THEN /\ res' = [err |-> StreamSchemaErr(loop.i, r.err), val |-> Null]
                /\ pc' = "Failed"
                /\ UNCHANGED loop
           ELSE /\ loop' = [loop EXCEPT !.i = @ + 2, !.schemas = Append(@, r.val)]
                /\ pc' = "ExpectSizeLine"
                /\ UNCHANGED res
    /\ UNCHANGED <<T, v, arr, data, wire>>

\* The loop's guard fails: the stream is returned.
ReturnStream ==
    /\ pc = "ExpectSizeLine"
    /\ ~(loop.i < Len(loop.lines) - 1)
    /\ res' = [err |-> NoErr, val |-> Stream(loop.lines[1], loop.schemas)]
    /\ pc' = "Done"
    /\ UNCHANGED <<T, v, arr, data, wire, loop>>

StreamNext ==
    \/ SplitLines
    \/ StartLoop
    \/ SkipEmptyLine
    \/ TakeSizeLine
    \/ DecodePair
    \/ ReturnStream

\* A call that has not returned takes its next statement.
StreamSpec == StreamInit /\ [][StreamNext]_vars /\ WF_vars(StreamNext)

(***************************************************************************)
(* What the claims speak of                                                *)
(***************************************************************************)
\* A tag as the record-tag convention has it: a position 1..MaxPos, or none.
PlainTag(tag) == tag \in NumTags \cup {NoTag}

\* The position of the field declared i-th, for a plain tag: the number the
\* tag writes, or the declaration index.
Position(t, i) ==
    IF t[i].tag = NoTag THEN i ELSE CHOOSE p \in 1..MaxPos : Itoa(p) = t[i].tag

\* The exported fields of t.
Exported(t) == {i \in 1..Len(t) : t[i].exp}

\* The exported fields of t at position p.
FieldsAt(t, p) == {i \in Exported(t) : Position(t, i) = p}

RECURSIVE PlainTags(_)
\* Every exported field of t, and of the records nested in it, has a plain tag.
PlainTags(t) ==
    \A i \in Exported(t) :
        PlainTag(t[i].tag) /\ (t[i].kind = "struct" => PlainTags(t[i].sub))

RECURSIVE Injective(_)
\* The positions of t, and of the records nested in it, are pairwise distinct.
Injective(t) ==
    /\ PlainTags(t)
    /\ \A i \in Exported(t) :
          /\ FieldsAt(t, Position(t, i)) = {i}
          /\ t[i].kind = "struct" => Injective(t[i].sub)

RECURSIVE AllExported(_)
AllExported(t) ==
    \A i \in 1..Len(t) : t[i].exp /\ (t[i].kind = "struct" => AllExported(t[i].sub))

RECURSIVE Coercible(_)
\* Every field of t is text, a signed integer, a float, a boolean or a record of such.
Coercible(t) ==
    \A i \in 1..Len(t) :
        /\ t[i].kind \in {"string", "int", "float", "bool", "struct"}
        /\ t[i].kind = "struct" => Coercible(t[i].sub)

\* The greatest position of t, 0 for a record without fields.
MaxPosition(t) ==
    IF Exported(t) = {} THEN 0
    ELSE CHOOSE p \in {Position(t, i) : i \in Exported(t)} :
             \A i \in Exported(t) : Position(t, i) <= p

RECURSIVE Encoded(_, _)
\* The array of a record rec of type t with injective positions, slot by slot.
Encoded(t, rec) ==
    [p \in 1..MaxPosition(t) |->
        IF FieldsAt(t, p) = {} THEN Null
        ELSE LET i == CHOOSE i \in FieldsAt(t, p) : TRUE IN
             IF t[i].kind = "struct" THEN ArrV(Encoded(t[i].sub, rec[i].fs)) ELSE rec[i]]

C2_PositionOrder ==
    (pc = "structToArray" /\ PlainTags(T)) =>
        /\ \A i \in Exported(T) :
              (T[i].kind # "struct" /\ FieldsAt(T, Position(T, i)) = {i})
                  => (Position(T, i) <= Len(arr) /\ arr[Position(T, i)] = v[i])
        /\ T = <<S(1, <<"3">>), S(2, <<"1">>), S(3, <<"2">>)>> => arr = <<v[2], v[3], v[1]>>

\* [C(3), A(1), B(2)] holding c = "a", a = "b", b = "c" has been encoded as [a, b, c].
C2_Witness ==
    /\ pc = "structToArray"
    /\ T = <<S(1, <<"3">>), S(2, <<"1">>), S(3, <<"2">>)>>
    /\ v = <<StrV(<<"a">>), StrV(<<"b">>), StrV(<<"c">>)>>
    /\ arr = <<StrV(<<"b">>), StrV(<<"c">>), StrV(<<"a">>)>>

RECURSIVE DenseArray(_, _)
\* a has as many slots as the greatest position of t, the slots at no field's
\* position hold null, and so for the arrays of the records nested in t.
DenseArray(t, a) ==
    /\ Len(a) = MaxPosition(t)
    /\ \A p \in 1..Len(a) : FieldsAt(t, p) = {} => a[p] = Null
    /\ \A i \in Exported(t) :
          (t[i].kind = "struct" /\ FieldsAt(t, Position(t, i)) = {i})
              => (a[Position(t, i)].k = "arr" /\ DenseArray(t[i].sub, a[Position(t, i)].a))

\* C3: the encoded array is as long as the greatest position of the record's
\* fields (0 without fields) and every slot at no field's position is null.
C3_DenseArray ==
    (pc = "structToArray" /\ PlainTags(T)) => DenseArray(T, arr)

\* Positions {1, 3} have given a 3-element array whose middle slot is null.
C3_Witness ==
    /\ pc = "structToArray"
    /\ T = <<S(1, <<"1">>), S(2, <<"3">>)>>
    /\ arr = <<StrV(<<"a">>), Null, StrV(<<"b">>)>>

\* C4: a nested record is stored at slot position - 1 as the array of its own
\* fields by their own positions, at every depth:
\* {Nested(1){InnerField2(2), InnerField1(1)}, Field(2)} gives [[inner1, inner2], outer].
C4_NestedEncode ==
    (pc = "structToArray" /\ Injective(T)) =>
        /\ \A i \in Exported(T) :
              T[i].kind = "struct" =>
                  /\ Position(T, i) <= Len(arr)
                  /\ arr[Position(T, i)] = ArrV(Encoded(T[i].sub, v[i].fs))
        /\ T = <<St(1, <<"1">>, <<S(1, <<"2">>), S(2, <<"1">>)>>), S(2, <<"2">>)>>
              => arr = <<ArrV(<<v[1].fs[2], v[1].fs[1]>>), v[2]>>

\* A record nested two levels down has been encoded by its own positions.
C4_Witness ==
    /\ pc = "structToArray"
    /\ T = <<St(1, <<"1">>, <<St(1, <<"2">>, <<S(1, <<"2">>), S(2, <<"1">>)>>)>>)>>
    /\ arr = <<ArrV(<<Null, ArrV(<<StrV(<<"b">>), StrV(<<"a">>)>>)>>)>>

RECURSIVE WellShaped(_, _)
\* Every nested record of t whose slot a has holds an array there.
WellShaped(t, a) ==
    \A i \in Exported(t) :
        (t[i].kind = "struct" /\ Position(t, i) <= Len(a)) =>
            /\ a[Position(t, i)].k = "arr"
            /\ WellShaped(t[i].sub, a[Position(t, i)].a)

RECURSIVE Decoded(_, _)
\* The record of type t read from a by position: the field at position p
\* takes a[p - 1] (counting from 0), a nested record takes its own array.
Decoded(t, a) ==
    [i \in 1..Len(t) |->
        IF ~t[i].exp \/ Position(t, i) > Len(a) THEN ZeroOf(t[i])
        ELSE IF t[i].kind = "struct" THEN StructV(Decoded(t[i].sub, a[Position(t, i)].a))
        ELSE setFieldValue(t[i].kind, ZeroOf(t[i]), a[Position(t, i)]).val]

\* C5: arrayToStruct gives the field at position p the element at index
\* p - 1, not the one at the field's rank, in nested records too: with
\* positions {1, 3} the second field is read from array[2].
C5_DecodeByPosition ==
    (pc = "arrayToStruct" /\ PlainTags(T) /\ WellShaped(T, arr) /\ res.err = NoErr) =>
        /\ res.val = Decoded(T, arr)
        /\ (T = <<S(1, <<"1">>), S(2, <<"3">>)>> /\ Len(arr) >= 3 /\ arr[3] # Null)
              => res.val[2] = arr[3]

\* A nested record at positions {2, 3} has been read from indices 1 and 2 of its own array.
C5_Witness ==
    /\ pc = "arrayToStruct"
    /\ T = <<S(1, <<"1">>), St(2, <<"2">>, <<S(1, <<"2">>), S(2, <<"3">>)>>)>>
    /\ arr = <<StrV(<<"a">>), ArrV(<<StrV(<<"c">>), StrV(<<"d">>), StrV(<<"e">>)>>)>>
    /\ res = [err |-> NoErr,
              val |-> <<StrV(<<"a">>), StructV(<<StrV(<<"d">>), StrV(<<"e">>)>>)>>]

RECURSIVE MissingKeptZero(_, _, _)
\* In val, decoded from a, every field of t whose slot a does not have holds
\* its zero value, and so in the nested records that were decoded.
MissingKeptZero(t, a, val) ==
    \A i \in Exported(t) :
        /\ Position(t, i) > Len(a) => val[i] = ZeroOf(t[i])
        /\ (t[i].kind = "struct" /\ Position(t, i) <= Len(a) /\ a[Position(t, i)].k = "arr")
              => MissingKeptZero(t[i].sub, a[Position(t, i)].a, val[i].fs)

RECURSIVE ErrorInRange(_, _, _)
\* The fields the error names one inside the other have their slots in a.
ErrorInRange(t, a, names) ==
    /\ names # <<>>
    /\ \E i \in Exported(t) :
          /\ t[i].name = names[1]
          /\ Position(t, i) <= Len(a)
          /\ Len(names) > 1 =>
                /\ t[i].kind = "struct"
                /\ a[Position(t, i)].k = "arr"
                /\ ErrorInRange(t[i].sub, a[Position(t, i)].a, Tail(names))

\* C6: a short or a long array is no error of itself.  A field whose slot
\* the array does not have keeps its zero value; an error is about an element
\* the array has; cutting the array short or appending to it brings no error;
\* the elements at no field's position do not bear on the result.
C6_ShortOrLongArray ==
    (pc = "arrayToStruct" /\ PlainTags(T)) =>
        /\ MissingKeptZero(T, arr, res.val)
        /\ res.err # NoErr =>
              (res.err.kind \in {"shape", "unsupported"} /\ ErrorInRange(T, arr, res.err.fields))
        /\ res.err = NoErr =>
              \A n \in 0..Len(arr) : arrayToStruct(T, SubSeq(arr, 1, n), Zero(T)).err = NoErr
        /\ \A x \in {Null, BoolV(TRUE), ArrV(<<>>)} :
              /\ Len(arr) >= MaxPosition(T) => arrayToStruct(T, arr \o <<x>>, Zero(T)) = res
              /\ \A p \in 1..Len(arr) :
                    FieldsAt(T, p) = {} => arrayToStruct(T, [arr EXCEPT ![p] = x], Zero(T)) = res

\* Positions {1, 3} have been decoded from a one-element array: the second field is unset.
C6_Witness ==
    /\ pc = "arrayToStruct"
    /\ T = <<S(1, <<"1">>), S(2, <<"3">>)>>
    /\ arr = <<StrV(<<"a">>)>>
    /\ res = [err |-> NoErr, val |-> <<StrV(<<"a">>), StrV(<<>>)>>]

\* C7: an array that holds null at the position of every field it reaches
\* decodes without error and leaves every field unset, whatever the fields'
\* types, nested records among them.
C7_NullLeavesUnset ==
    (/\ pc = "arrayToStruct"
     /\ PlainTags(T)
     /\ \A i \in Exported(T) : Position(T, i) <= Len(arr) => arr[Position(T, i)] = Null)
        => (res.err = NoErr /\ res.val = Zero(T))

RECURSIVE HasNonSequence(_, _)
\* Some nested record of t, at some depth, finds in its slot of a an element
\* that is neither null nor an array.
HasNonSequence(t, a) ==
    \E i \in Exported(t) :
        /\ t[i].kind = "struct"
        /\ Position(t, i) <= Len(a)
        /\ \/ a[Position(t, i)].k \notin {"arr", "null"}
           \/ a[Position(t, i)].k = "arr" /\ HasNonSequence(t[i].sub, a[Position(t, i)].a)

\* C8: a nested record, at any depth, whose slot holds an element that is no
\* sequence makes decode return the type-mismatch error.
C8_NonSequenceIsError ==
    (pc = "arrayToStruct" /\ Injective(T) /\ Coercible(T) /\ HasNonSequence(T, arr))
        => res.err.kind = "shape"

\* C9: the frame is the decimal size, CRLF, the JSON text b, CRLF, and the
\* size is len(b) + 2: it counts the closing CRLF and not the size line.
C9_FrameEncode ==
    pc = "Marshal" =>
        LET b        == jsonMarshal(ArrV(structToArray(T, v)))
            k        == IndexFrom(data, CRLF, 1)
            sizeText == SubSeq(data, 1, k - 1)
            rest     == SubSeq(data, k + 2, Len(data))
        IN  /\ k > 1
            /\ \A j \in 1..Len(sizeText) : sizeText[j] \in DigitSet
            /\ sizeText[1] # "0"
            /\ DigitsValue(sizeText) = Len(b) + 2
            /\ DigitsValue(sizeText) = Len(data) - Len(sizeText) - 2
            /\ rest = b \o CRLF
            /\ data = Itoa(Len(b) + 2) \o CRLF \o b \o CRLF

\* ["a",null,"b"], 14 bytes, has been framed under the size 16.
C9_Witness ==
    /\ pc = "Marshal"
    /\ T = <<S(1, <<"1">>), S(2, <<"3">>)>>
    /\ data = <<"1", "6">> \o CRLF
                \o <<"[", Quote, "a", Quote, ",", "n", "u", "l", "l", ",", Quote, "b", Quote, "]">>
                \o CRLF

\* C10 as stated: a frame whose declared size was replaced by any other
\* integer fails with the size-mismatch error and gives no record.
C10_AnyOtherInteger ==
    (pc = "Unmarshal" /\ wire # data) => (res.err.kind = "size" /\ res.val = Zero(T))

\* C10 as amended: a frame whose declared size was replaced by another
\* integer that an int holds fails with the size-mismatch error, which
\* reports the declared size and the actual one, len(b) + 2, and gives no
\* record; an integer no int holds fails as an invalid size instead.
C10_SizeMismatch ==
    (pc = "Unmarshal" /\ wire # data) =>
        LET b        == jsonMarshal(ArrV(structToArray(T, v)))
            sizeText == SubSeq(wire, 1, IndexFrom(wire, CRLF, 1) - 1)
        IN  /\ res.val = Zero(T)
            /\ IF sizeText = HugeSize
               THEN res.err = SizeFormatErr
               ELSE /\ res.err.kind = "size"
                    /\ Itoa(res.err.expected) = sizeText
                    /\ res.err.actual = Len(b) + 2
                    /\ res.err.expected # res.err.actual

\* ["a"] framed under 7 and redeclared as 8 has been refused: expected 8, got 7.
C10_Witness ==
    /\ pc = "Unmarshal"
    /\ T = <<S(1, <<"1">>)>>
    /\ data = <<"7">> \o CRLF \o <<"[", Quote, "a", Quote, "]">> \o CRLF
    /\ wire = <<"8">> \o CRLF \o <<"[", Quote, "a", Quote, "]">> \o CRLF
    /\ res = [err |-> SizeMismatchErr(8, 7), val |-> <<StrV(<<>>)>>]

\* A text that writes an integer: an optional sign, then decimal digits.
IsIntegerText(s) ==
    LET ds == IF s # <<>> /\ Head(s) \in {"+", "-"} THEN Tail(s) ELSE s IN
    ds # <<>> /\ \A i \in 1..Len(ds) : ds[i] \in DigitSet

\* A text that writes an integer of at most 18 digits, which an int holds.
IsIntText(s) ==
    /\ IsIntegerText(s)
    /\ Len(StripZeros(IF Head(s) \in {"+", "-"} THEN Tail(s) ELSE s)) <= 18

\* The integer such a text of at most 9 digits writes.
IntTextValue(s) ==
    IF Head(s) = "-" THEN -DigitsValue(Tail(s))
    ELSE IF Head(s) = "+" THEN DigitsValue(Tail(s))
    ELSE DigitsValue(s)

\* C11 as stated: a frame written by hand is accepted only if the size it
\* declares is the number of bytes of its payload line and of what ends it.
C11_SizeIsByteCount ==
    (pc = "DecodeFrame" /\ v.sep # <<>> /\ res.err = NoErr) =>
        /\ IsIntText(TrimSpace(v.size))
        /\ IntTextValue(TrimSpace(v.size)) = Len(v.payload) + Len(v.term)

\* C11 as amended: a frame is accepted only if the size it declares is the
\* length of its payload line without the surrounding whitespace, plus 2,
\* whatever ends the line (CRLF, LF or nothing); a frame that declares
\* another size is rejected.
C11_SizeIsTrimmedLengthPlus2 ==
    (pc = "DecodeFrame" /\ v.sep # <<>>) =>
        LET declared == TrimSpace(v.size) IN
        /\ res.err = NoErr =>
              /\ IsIntText(declared)
              /\ IntTextValue(declared) = Len(TrimSpace(v.payload)) + 2
        /\ (IsIntText(declared) /\ IntTextValue(declared) # Len(TrimSpace(v.payload)) + 2)
              => res.err # NoErr

\* The frame 5 CRLF [1] LF, whose payload and terminator are 4 bytes, has been accepted.
C11_Witness ==
    /\ pc = "DecodeFrame"
    /\ v = [size |-> <<"5">>, sep |-> CRLF, payload |-> <<"[", "1", "]">>, term |-> <<LF>>]
    /\ res = [err |-> NoErr, val |-> <<FloatV(10)>>]

\* Payload lines that are no JSON array.
MalformedTexts == {<<"[", "1", ",">>, <<"1", "1", "1">>, <<>>}

\* The error of the first check that fails on the lines, given which size
\* lines count as numeric; "ok" when none of the four fails.
FirstFailure(lines, numeric) ==
    IF Len(lines) < 2 THEN "lines"
    ELSE IF ~numeric THEN "sizeformat"
    ELSE IF IntTextValue(TrimSpace(lines[1])) # Len(TrimSpace(lines[2])) + 2 THEN "size"
    ELSE IF TrimSpace(lines[2]) \in MalformedTexts THEN "json"
    ELSE "ok"

\* C12 as stated: the checks run in the order lines, numeric size, size
\* equality, JSON, and the first that fails gives the error; a size line
\* that is not a non-negative integer is a format error.
C12_CheckOrderNonNegative ==
    pc = "DecodeFrame" =>
        LET lines == splitLines(wire, 2)
            size  == TrimSpace(lines[1])
        IN  res.err.kind = FirstFailure(lines, IsIntegerText(size) /\ Head(size) # "-")

\* C12 as amended: the same order, with the size line numeric when it
\* writes an integer, of either sign, that an int holds: a negative size is
\* then a size mismatch, and an integer beyond int a format error.
C12_CheckOrder ==
    pc = "DecodeFrame" =>
        LET lines == splitLines(wire, 2)
            size  == TrimSpace(lines[1])
        IN  /\ res.err.kind = FirstFailure(lines, IsIntText(size))
            /\ res.err.kind = "size" =>
                  res.err = SizeMismatchErr(IntTextValue(size), Len(TrimSpace(lines[2])) + 2)

\* A frame that declares 7 for the 3 bytes of the malformed [1, has failed on its size.
C12_Witness ==
    /\ pc = "DecodeFrame"
    /\ v = [size |-> <<"7">>, sep |-> CRLF, payload |-> <<"[", "1", ",">>, term |-> CRLF]
    /\ res = [err |-> SizeMismatchErr(7, 5), val |-> <<FloatV(0)>>]

RECURSIVE AsDecoded(_)
\* A value as JSON gives it back: the same value, a Go int as the float64 of
\* the same number, an array element by element.
AsDecoded(x) ==
    CASE x.k = "int" -> FloatV(10 * x.n)
      [] x.k = "arr" -> ArrV([i \in 1..Len(x.a) |-> AsDecoded(x.a[i])])
      [] OTHER -> x

\* 19 CRLF ["test1","test2"] CRLF
Frame19 ==
    <<"1", "9">> \o CRLF
        \o <<"[", Quote, "t", "e", "s", "t", "1", Quote, ",",
             Quote, "t", "e", "s", "t", "2", Quote, "]">>
        \o CRLF

\* C13: the frame of a dynamic sequence decodes without error to the
\* elements of the sequence in their order; the decoded sequence encodes to
\* the bytes it was decoded from; ["test1","test2"] is framed under 19.
C13_ImplicitRoundTrip ==
    /\ pc = "UnmarshalImplicit" =>
          /\ res.err = NoErr
          /\ res.val = AsDecoded(v)
          /\ v # Null => Len(res.val.a) = Len(v.a)
          /\ v = ArrV(<<Test1, Test2>>) => (wire = Frame19 /\ res.val = v)
    /\ pc = "RemarshalImplicit" => data = wire

\* 19 CRLF ["test1","test2"] CRLF has been decoded and encoded again to itself.
C13_Witness ==
    /\ pc = "RemarshalImplicit"
    /\ wire = Frame19
    /\ res = [err |-> NoErr, val |-> ArrV(<<Test1, Test2>>)]
    /\ data = Frame19

\* C14: a marshalled stream whose marker holds no line terminator
\* unmarshals without error to the same marker and the same frames in their
\* order: two frames after the marker and the blank line give two arrays.
C14_StreamRoundTrip ==
    (pc = "UnmarshalStream" /\ \A i \in 1..Len(v.MagicByte) : v.MagicByte[i] # LF) =>
        /\ res.err = NoErr
        /\ res.val # Null
        /\ res.val.MagicByte = v.MagicByte
        /\ Len(res.val.Schemas) = Len(v.Schemas)
        /\ \A i \in 1..Len(v.Schemas) : res.val.Schemas[i] = AsDecoded(v.Schemas[i])

\* The stream of the frames ["test1","test2"] and ["data1",42] has gone round.
C14_Witness ==
    /\ pc = "UnmarshalStream"
    /\ v = Stream(MagicByte, <<ArrV(<<Test1, Test2>>), ArrV(<<Data1, IntV(42)>>)>>)
    /\ res = [err |-> NoErr,
              val |-> Stream(MagicByte, <<ArrV(<<Test1, Test2>>), ArrV(<<Data1, FloatV(420)>>)>>)]

\* A stream of a marker, CRLF, CRLF and nothing else: written by hand, or
\* marshalled from a stream without frames.
IsEmptyStream ==
    \/ /\ pc = "DecodeStream"
       /\ v.second = <<<<>>>> /\ v.items = <<>> /\ v.le = CRLF /\ v.closed
    \/ /\ pc = "UnmarshalStream"
       /\ v.Schemas = <<>>

\* C15: marker CRLF CRLF decodes without error to the marker, byte for
\* byte, and no frames.
C15_EmptyStream ==
    IsEmptyStream =>
        LET marker == IF pc = "DecodeStream" THEN v.marker ELSE v.MagicByte IN
        /\ wire = marker \o CRLF \o CRLF
        /\ res.err = NoErr
        /\ res.val # Null
        /\ res.val.MagicByte = marker
        /\ Len(res.val.Schemas) = 0

\* The marker " x" CR followed by CRLF CRLF has been decoded to itself and no frames.
C15_Witness ==
    /\ pc = "UnmarshalStream"
    /\ wire = <<" ", "x", CR>> \o CRLF \o CRLF
    /\ res = [err |-> NoErr, val |-> Stream(<<" ", "x", CR>>, <<>>)]

RECURSIVE FramesOf(_)
\* The frames of the schemas one after the other: for each the decimal of
\* len(json) + 2, CRLF, the JSON text, CRLF.
FramesOf(schemas) ==
    IF schemas = <<>> THEN <<>>
    ELSE LET b == jsonMarshal(Head(schemas)) IN
         Itoa(Len(b) + 2) \o CRLF \o b \o CRLF \o FramesOf(Tail(schemas))

\* 14 CRLF ["data1",42] CRLF
Frame14 ==
    <<"1", "4">> \o CRLF
        \o <<"[", Quote, "d", "a", "t", "a", "1", Quote, ",", "4", "2", "]">>
        \o CRLF

\* C16: a marshalled stream is the marker, CRLF, CRLF and the frames of its
\* schemas in their order with nothing between them; without schemas it is
\* the marker, CRLF, CRLF.
C16_StreamEncode ==
    (pc = "MarshalStream" /\ v # Null) =>
        /\ res.err = NoErr
        /\ data = v.MagicByte \o CRLF \o CRLF \o FramesOf(v.Schemas)
        /\ v.Schemas = <<>> => data = v.MagicByte \o CRLF \o CRLF

\* The stream of the tests has been marshalled: the marker, the blank line, the frames 19 and 14.
C16_Witness ==
    /\ pc = "MarshalStream"
    /\ v = Stream(MagicByte, <<ArrV(<<Test1, Test2>>), ArrV(<<Data1, IntV(42)>>)>>)
    /\ data = MagicByte \o CRLF \o CRLF \o Frame19 \o Frame14

\* C17: an input with fewer than two line feeds, which splits into fewer
\* than 3 lines on CRLF and on LF, fails with the error "expected at least
\* 3 lines" and gives no stream.
C17_TooFewLines ==
    (pc = "DecodeStream" /\ Cardinality({i \in 1..Len(wire) : wire[i] = LF}) < 2) =>
        res = [err |-> [kind |-> "streamlines", min |-> 3], val |-> Null]

\* The marker and one CRLF have been refused.
C17_Witness ==
    /\ pc = "DecodeStream"
    /\ wire = MagicByte \o CRLF
    /\ res.err.kind = "streamlines"
    /\ res.val = Null

\* C18: a stream whose line at index 1 is not blank is refused.
C18_SecondLineMustBeBlank ==
    (pc = "DecodeStream" /\ v.second # <<>> /\ TrimSpace(v.second[1]) # <<>>)
        => (res.err # NoErr /\ res.val = Null)

\* The items that are frames failing to decode, and the error of each.
FailingKinds == {"mismatch", "badsize", "badjson"}
FailureOf(kind) ==
    CASE kind = "mismatch" -> SizeMismatchErr(7, 5)
      [] kind = "badsize" -> SizeFormatErr
      [] kind = "badjson" -> JSONErr

RECURSIVE LinesBefore(_, _)
\* The index, from 0, of the first line of the k-th item: the two lines of
\* the head and the lines of the items before it.
LinesBefore(items, k) ==
    IF k = 1 THEN 2 ELSE LinesBefore(items, k - 1) + Len(ItemLines(items[k - 1]))

\* C19: when a frame fails to decode, stream decode returns the error and
\* no stream, the frames before it are not returned, and the error carries
\* the index of the failing frame's size line; and no error comes with a stream.
C19_FrameFailureAborts ==
    (pc = "DecodeStream" /\ v.second # <<>>) =>
        /\ res.err # NoErr => res.val = Null
        /\ \A k \in 1..Len(v.items) :
              (/\ v.items[k] \in FailingKinds
               /\ \A j \in 1..(k - 1) : v.items[j] \in {"good", "blank", "space"})
                  => res = [err |-> StreamSchemaErr(LinesBefore(v.items, k), FailureOf(v.items[k])),
                            val |-> Null]

\* A good frame, a blank line and a frame declaring a wrong size: the error is at line 5.
C19_Witness ==
    /\ pc = "DecodeStream"
    /\ v.second = <<<<>>>>
    /\ v.items = <<"good", "blank", "mismatch">>
    /\ res = [err |-> StreamSchemaErr(5, SizeMismatchErr(7, 5)), val |-> Null]

\* The position the tag of the field declared i-th gives it: the integer the
\* tag writes when that is positive, and i otherwise.
AnnotatedPosition(t, i) ==
    IF IsIntegerText(t[i].tag) /\ IntTextValue(t[i].tag) > 0
    THEN IntTextValue(t[i].tag)
    ELSE i

\* C20: a field's position is its tag when the tag writes a positive
\* integer and its declaration index otherwise (no tag, no number, zero, a
\* negative number): the field's value is at that position of the array.
C20_PositionOrDeclarationIndex ==
    pc = "structToArray" =>
        \A i \in Exported(T) :
            (\A j \in Exported(T) \ {i} : AnnotatedPosition(T, j) # AnnotatedPosition(T, i))
                => /\ AnnotatedPosition(T, i) <= Len(arr)
                   /\ T[i].kind # "struct" => arr[AnnotatedPosition(T, i)] = v[i]

\* The field of a non-empty set of fields that is declared last.
LastOf(fs) == CHOOSE i \in fs : \A j \in fs : j <= i

CoercionKinds == {"string", "int", "float", "bool", "struct"}

\* The fields of t without a coercion rule whose slot in a holds an element
\* that is not null and not of the field's own type (an array, for a field
\* of type []interface{}).
Uncoercible(t, a) ==
    {i \in Exported(t) :
        /\ t[i].kind \notin CoercionKinds
        /\ Position(t, i) <= Len(a)
        /\ a[Position(t, i)].k # "null"
        /\ ~(t[i].kind = "slice" /\ a[Position(t, i)].k = "arr")}

\* C22: a present, non-null element for a field without a coercion rule
\* makes decode return the unsupported-type error, naming the first such
\* field by position; a null element for such a field is no error (records
\* without nested records).
C22_UnsupportedType ==
    (pc = "arrayToStruct" /\ PlainTags(T) /\ \A i \in 1..Len(T) : T[i].kind # "struct") =>
        LET bad == Uncoercible(T, arr) IN
        /\ bad # {} =>
              /\ res.err.kind = "unsupported"
              /\ \E i \in bad :
                    /\ \A j \in bad : Position(T, i) <= Position(T, j)
                    /\ res.err.fields = <<T[i].name>>
        /\ bad = {} => res.err = NoErr

\* A uint field was given null and a []interface{} field a text: the error names the second.
C22_Witness ==
    /\ pc = "arrayToStruct"
    /\ T = <<K(1, "uint"), K(2, "slice")>>
    /\ arr = <<Null, StrV(<<"a">>)>>
    /\ res.err = [kind |-> "unsupported", fields |-> <<"F2">>]

\* C23: a stream that ends right after a size line, with or without that
\* line's terminator, and is well formed up to there, is refused.
C23_DanglingSizeLineFails ==
    (/\ pc = "DecodeStream"
     /\ v.second = <<<<>>>>
     /\ v.items # <<>>
     /\ v.items[Len(v.items)] = "alone"
     /\ \A k \in 1..(Len(v.items) - 1) : v.items[k] \in {"good", "blank", "space"})
        => (res.err # NoErr /\ res.val = Null)

\* The call has returned.
Returned == pc \in {"Done", "Failed"}

\* One statement of the call: from each place the call moves on to the next
\* in the order marker, blank line, size and payload lines, and inside the loop
\* the line index moves forward by 1 past a blank line and by 2 past a pair.
Advances ==
    /\ pc = "ExpectMarker" => pc' \in {"ExpectBlank", "Failed"}
    /\ pc = "ExpectBlank" => pc' = "ExpectSizeLine"
    /\ pc = "ExpectSizeLine" =>
          \/ pc' = "ExpectSizeLine" /\ loop'.i = loop.i + 1
          \/ pc' = "ExpectPayloadLine" /\ loop'.i = loop.i
          \/ pc' = "Done"
    /\ pc = "ExpectPayloadLine" =>
          \/ pc' = "ExpectSizeLine" /\ loop'.i = loop.i + 2
          \/ pc' = "Failed"
    /\ ~Returned

\* C24: stream decode terminates on every input: each statement moves on as
\* Advances says, the line index stays within the lines, the call returns
\* at last, and what it returns is UnmarshalImplicitStream's result.
C24_StreamDecodeTerminates ==
    /\ [][Advances]_vars
    /\ [](loop.i <= Len(loop.lines))
    /\ [](Returned => res = UnmarshalImplicitStream(wire))
    /\ <>Returned

\* A stream of a frame, a blank line and a frame has been read to its end.
C24_Witness ==
    /\ pc = "Done"
    /\ v.items = <<"good", "blank", "good">>
    /\ loop.i = 7
    /\ Len(res.val.Schemas) = 2

\* Whole frames, those that decode and those that do not.
FrameKinds == {"good"} \cup FailingKinds

RECURSIVE WithoutBlanks(_)
\* The items without the blank lines among them.
WithoutBlanks(items) ==
    IF items = <<>> THEN <<>>
    ELSE (IF Head(items) \in {"blank", "space"} THEN <<>> ELSE <<Head(items)>>)
             \o WithoutBlanks(Tail(items))

\* C25: blank and whitespace-only lines before, between and after whole
\* frames are passed over: the stream decodes to the same marker and frames,
\* or fails for the same cause, as the stream without them.
C25_BlankLinesSkipped ==
    (/\ pc = "DecodeStream"
     /\ v.second = <<<<>>>>
     /\ \A k \in 1..Len(v.items) : v.items[k] \in FrameKinds \cup {"blank", "space"}
     /\ \E k \in 1..Len(v.items) : v.items[k] \in FrameKinds) =>
        LET bare == UnmarshalImplicitStream(StreamBytes([v EXCEPT !.items = WithoutBlanks(v.items)]))
        IN  /\ res.val = bare.val
            /\ res.err.kind = bare.err.kind
            /\ res.err # NoErr => res.err.cause = bare.err.cause

\* Two frames with a line of spaces between them have been decoded as two frames.
C25_Witness ==
    /\ pc = "DecodeStream"
    /\ v.second = <<<<>>>>
    /\ v.items = <<"good", "space", "good">>
    /\ res.err = NoErr
    /\ res.val.Schemas = <<ArrV(<<FloatV(10)>>), ArrV(<<FloatV(10)>>)>>

\* The frame written by hand f with CRLF for every LF that ends a line of it.
FrameWithCRLF(f) == [f EXCEPT !.sep = CRLF, !.term = IF f.term = <<LF>> THEN CRLF ELSE <<>>]

\* C26: an input whose lines end in bare LF decodes to what the same lines
\* ending in CRLF decode to, under the same declared sizes: a frame to the
\* same record or array, and a stream to the same marker and frames (or to
\* the same error).
C26_LFAsCRLF ==
    /\ (pc = "DecodeFrame" /\ v.sep = <<LF>> /\ v.term # CRLF) =>
          /\ res = UnmarshalExplicitSchema(T, FrameBytes(FrameWithCRLF(v)))
          /\ UnmarshalImplicitSchema(wire) = UnmarshalImplicitSchema(FrameBytes(FrameWithCRLF(v)))
    /\ (pc = "DecodeStream" /\ v.le = <<LF>> /\ v.marker \in {MagicByte, <<>>}) =>
          res = UnmarshalImplicitStream(StreamBytes([v EXCEPT !.le = CRLF]))

\* A stream of two frames whose lines all end in LF has been decoded.
C26_Witness ==
    /\ pc = "DecodeStream"
    /\ wire = MagicByte \o <<LF, LF, "5", LF, "[", "1", "]", LF, "5", LF, "[", "1", "]", LF>>
    /\ res = [err |-> NoErr,
              val |-> Stream(MagicByte, <<ArrV(<<FloatV(10)>>), ArrV(<<FloatV(10)>>)>>)]

\* The position the code resolves for the field declared i-th: the integer
\* its tag writes, of any sign, and i for a tag that writes none.
ResolvedPosition(t, i) ==
    IF IsIntegerText(t[i].tag) THEN IntTextValue(t[i].tag) ELSE i

\* The exported fields of t whose resolved position is 0 or negative.
NonPositive(t) == {i \in Exported(t) : ResolvedPosition(t, i) <= 0}

\* C27: with a field at position 0 or below, the encoded array is as long as
\* the greatest position above 0 (never shorter than empty), every other
\* field's slot is inside it, and the field's value is in no slot; decode
\* reports no error, leaves the field as it was and reads every other field
\* from a slot the array has (records of string fields).
C27_NonPositiveSkipped ==
    /\ (pc = "structToArray" /\ NonPositive(T) # {}) =>
          /\ \A i \in Exported(T) \ NonPositive(T) : ResolvedPosition(T, i) \in 1..Len(arr)
          /\ \/ Len(arr) = 0 /\ Exported(T) = NonPositive(T)
             \/ \E i \in Exported(T) : ResolvedPosition(T, i) = Len(arr)
          /\ \A i \in NonPositive(T) :
                structToArray(T, [v EXCEPT ![i] = StrV(<<"z">>)]) = arr
    /\ (pc = "arrayToStruct" /\ NonPositive(T) # {}) =>
          /\ res.err = NoErr
          /\ \A i \in NonPositive(T) : res.val[i] = ZeroOf(T[i])
          /\ \A i \in Exported(T) \ NonPositive(T) :
                res.val[i] = IF ResolvedPosition(T, i) \in 1..Len(arr)
                             THEN setFieldValue(T[i].kind, ZeroOf(T[i]), arr[ResolvedPosition(T, i)]).val
                             ELSE ZeroOf(T[i])

\* A record with a field tagged 0 and a field tagged 1 has been decoded from
\* a two-element array: the first field is left empty.
C27_Witness ==
    /\ pc = "arrayToStruct"
    /\ T = <<S(1, <<"0">>), S(2, <<"1">>)>>
    /\ arr = <<StrV(<<"a">>), StrV(<<"7">>)>>
    /\ res = [err |-> NoErr, val |-> <<StrV(<<>>), StrV(<<"a">>)>>]

\* The kinds of the fields C28 speaks of.
ScalarTargets == {"string", "int", "float", "bool"}

\* The texts strconv.ParseBool reads.
BoolTexts ==
    {<<"1">>, <<"t">>, <<"T">>, <<"t", "r", "u", "e">>, <<"T", "R", "U", "E">>,
     <<"T", "r", "u", "e">>, <<"0">>, <<"f">>, <<"F">>, <<"f", "a", "l", "s", "e">>,
     <<"F", "A", "L", "S", "E">>, <<"F", "a", "l", "s", "e">>}

\* A present element that a field of the kind has no conversion for: a
\* boolean or an array for a number, a number or an array for a boolean, a
\* text that writes no number, or no boolean.
CannotCoerce(kind, x) ==
    \/ kind \in {"int", "float"} /\ x.k \in {"bool", "arr"}
    \/ kind \in {"int", "float"} /\ x.k = "string" /\ ~IsIntegerText(x.s)
    \/ kind = "bool" /\ x.k \in {"float", "arr"}
    \/ kind = "bool" /\ x.k = "string" /\ x.s \notin BoolTexts

\* C28: a record of text, integer, floating-point and boolean fields decodes
\* without error from any array, and a field whose element cannot be coerced
\* keeps its zero value.
C28_UncoercibleLeftZero ==
    (pc = "arrayToStruct" /\ PlainTags(T) /\ \A i \in 1..Len(T) : T[i].kind \in ScalarTargets) =>
        /\ res.err = NoErr
        /\ \A i \in Exported(T) :
              (Position(T, i) <= Len(arr) /\ CannotCoerce(T[i].kind, arr[Position(T, i)]))
                  => res.val[i] = ZeroOf(T[i])

\* An integer field was given a boolean and a boolean field an unparsable text.
C28_Witness ==
    /\ pc = "arrayToStruct"
    /\ T = <<K(1, "int"), K(2, "bool")>>
    /\ arr = <<BoolV(TRUE), StrV(<<"a">>)>>
    /\ res = [err |-> NoErr, val |-> <<IntV(0), BoolV(FALSE)>>]

\* C29: a stream whose marker line and blank line end in CRLF and whose
\* frames end their lines in bare LF decodes without error to the marker
\* and no frame, whatever follows the head.
C29_MixedTerminators ==
    pc = "DecodeMixed" => res = [err |-> NoErr, val |-> Stream(v.marker, <<>>)]

\* Two well-formed frames with LF after a CRLF head have been dropped.
C29_Witness ==
    /\ pc = "DecodeMixed"
    /\ wire = MagicByte \o CRLF \o CRLF \o <<"5", LF, "[", "1", "]", LF, "5", LF, "[", "1", "]", LF>>
    /\ res = [err |-> NoErr, val |-> Stream(MagicByte, <<>>)]

\* The input holds a CRLF somewhere.
holdsCRLF(d) == \E k \in 1..(Len(d) - 1) : d[k] = CR /\ d[k + 1] = LF

\* The result of decoding the frame of a DecodeTail state without the bytes
\* that follow it.
WithoutTail == UnmarshalExplicitSchema(T, FrameBytes(v.f))

\* C30 as stated: bytes that follow the payload line's terminator never
\* change the result of frame decode.
C30_TailNeverChangesResult ==
    (pc = "DecodeTail" /\ v.f.term # <<>>) => res = WithoutTail

\* C30, amended: frame decode reads the first two segments of the split it
\* chose for the whole input.  After a frame whose two lines end in CRLF the
\* bytes that follow never change the result; after a frame whose two lines
\* end in bare LF they do not change it unless the input then holds a CRLF,
\* and then a frame that decoded without them fails with the size format
\* error.  A frame whose payload line has no terminator and no surrounding
\* whitespace passes the size check when it declares len(payload) + 2, and
\* is accepted when the payload is a JSON array.
C30_TailIgnoredWithinSplit ==
    pc = "DecodeTail" =>
        /\ (v.f.sep = CRLF /\ v.f.term = CRLF) => res = WithoutTail
        /\ (v.f.sep = <<LF>> /\ v.f.term = <<LF>> /\ ~holdsCRLF(wire)) => res = WithoutTail
        /\ (v.f.sep = <<LF>> /\ v.f.term = <<LF>> /\ holdsCRLF(wire) /\ WithoutTail.err = NoErr)
               => res.err = SizeFormatErr
        /\ ( /\ v.f.term = <<>>
             /\ v.f.payload = TrimSpace(v.f.payload)
             /\ Atoi(TrimSpace(v.f.size)).err = ""
             /\ Atoi(TrimSpace(v.f.size)).n = Len(v.f.payload) + 2 )
               => /\ res.err \in {NoErr, JSONErr}
                  /\ jsonUnmarshal(v.f.payload).ok => res.err = NoErr

\* A second CRLF frame after a CRLF frame has been ignored, and the decode
\* gave the first frame's value.
C30_Witness ==
    /\ pc = "DecodeTail"
    /\ wire = <<"5">> \o CRLF \o <<"[", "1", "]">> \o CRLF \o <<"5">> \o CRLF \o <<"[", "1", "]">> \o CRLF
    /\ res.err = NoErr
    /\ res = WithoutTail

====
